---- MODULE Spec2Model ----
(***************************************************************************)
(* koftipy: the Lazy container (koftipy/lazy.py, koftipy/control/lazy.py)  *)
(* and the Iterator cursors (koftipy/collection/iterator.py,               *)
(* koftipy/iterator.py).                                                   *)
(* Client threads call get(), is_computed(), map(), filter(), ==, iter()   *)
(* and Lazy.sequence() on shared Lazy objects.  One step of a thread is    *)
(* one read or write of a Lazy attribute (the interpreter switches threads *)
(* between bytecodes), or one call of a user function.  Cursors are used   *)
(* by one client; one step is one constructor call or one next().          *)
(***************************************************************************)
EXTENDS Integers, Sequences, FiniteSets, TLC

\* ---------------------------------------------------------------- bounds
NumThreads == 3
MaxLazies == 3
MaxOps == 3
MaxVal == 2
MaxSeqLen == 2
MaxShared == 2
MaxForceOps == 2
MaxCursors == 4
MaxBuilds == 2
MaxAdvances == 5
MaxCount == 2
MaxLook == 3
MaxSomes == 3
MaxPreds == 4
MaxFairOps == 2

Threads == 1..NumThreads
Lazies == 1..MaxLazies
Values == 1..MaxVal
Cursors == 1..MaxCursors

\* ---------------------------------------------------------------- values
\* Python values the model needs, all of one record shape.
NoneV == [k |-> "None", n |-> 0, xs |-> << >>]
IntV(n) == [k |-> "int", n |-> n, xs |-> << >>]
ListV(xs) == [k |-> "list", n |-> 0, xs |-> xs]
BoolV(b) == [k |-> "bool", n |-> IF b THEN 1 ELSE 0, xs |-> << >>]
\* The exception raised by the thunk of Lazy n.
ExcV(n) == [k |-> "exc", n |-> n, xs |-> << >>]
\* Nothing in flight between a callee and its caller.
Void == [k |-> "void", n |-> 0, xs |-> << >>]

\* Option.some(v) and Option.nothing(); Some(v) keeps the type of v.
SomeV(v) == [k |-> "Some:" \o v.k, n |-> v.n, xs |-> v.xs]
NothingV == [k |-> "Nothing", n |-> 0, xs |-> << >>]

\* bool(v), the truth value Python gives to v.
Truthy(v) ==
    IF v.k = "list" THEN v.xs # << >>
    ELSE IF v.k \in {"int", "bool", "str"} THEN v.n # 0
    ELSE v.k \in {"Some", "Nothing", "lambda:int", "lambda:None"}

\* The functions clients hand to filter(): x == 1, x > 1, x is None, and
\* lambda x: x, whose result is no bool.
CallFn(fn, v) ==
    IF fn = "eq1" THEN BoolV(v.k = "int" /\ v.n = 1)
    ELSE IF fn = "gt1" THEN BoolV(v.n > 1)
    ELSE IF fn = "is_none" THEN BoolV(v.k = "None")
    ELSE v

\* What filter() is handed: a bare function, or a Predicate made of a
\* function (a _Custom) inside negs layers of _Negate.
Function(fn) == [fn |-> fn, cls |-> "function", negs |-> 0]
NoPred == Function("")
Custom(fn) == [fn |-> fn, cls |-> "Predicate", negs |-> 0]

\* Predicate.of(p)
PredicateOf(p) == IF p.cls = "Predicate" THEN p ELSE Custom(p.fn)

\* Predicate.negate()
Negate(p) == [p EXCEPT !.negs = @ + 1]

\* A _Negate.test that hands on the truth value of the test it wraps.
TestEvenNegate(p, v) ==
    IF p.negs = 0 THEN CallFn(p.fn, v)
    ELSE BoolV(Truthy(CallFn(p.fn, v)))

\* Predicate.test: _Custom.test calls the function, each _Negate.test is
\* "not" of the test it wraps.
Test(p, v) ==
    IF p.negs = 0 THEN CallFn(p.fn, v)
    ELSE BoolV((p.negs % 2 = 1) # Truthy(CallFn(p.fn, v)))

\* The predicates of the threads that share a Lazy.
Preds == {Function("eq1"), Function("gt1")}

\* The predicates a single client hands to filter() and filter_not().
AllPreds == {Function("eq1"), Function("is_none"), Function("id"),
             Custom("eq1"), Custom("id"), Negate(Custom("is_none"))}

IsValue(v) == v.k \in {"None", "int", "list", "bool"}

\* The mapper function handed to map(): x -> x + MaxVal on numbers.
F(v) == IntV(v.n + MaxVal)

\* ---------------------------------------------------------------- cursors
\* koftipy/collection/iterator.py and koftipy/iterator.py.  Python values
\* that are callables or iterators:

\* A reference to the Iterator object c.
CursorRef(c) == [k |-> "Iterator", n |-> c, xs |-> << >>]

\* An element of a list or tuple: 0 stands for None, n > 0 for the number n.
Elem(n) == IF n = 0 THEN NoneV ELSE IntV(n)

\* iter(xs) of a list or tuple: Python's own iterator, with the elements
\* it has yet to give.
ListIter(xs) == [k |-> "list_iterator", n |-> 0, xs |-> xs]

\* it.__next__, the bound method of a list iterator, used as a supplier.
BoundNext(it) == [k |-> "__next__", n |-> 0, xs |-> it.xs]

\* lambda: v for a number or None v.
Lambda(v) == [k |-> "lambda:" \o v.k, n |-> v.n, xs |-> << >>]

\* The exception that signals exhaustion.
StopIteration == [k |-> "StopIteration", n |-> 0, xs |-> << >>]

\* What a failed assert raises, and what iter(None) and None() raise.
AssertionError == [k |-> "AssertionError", n |-> 0, xs |-> << >>]
TypeError == [k |-> "TypeError", n |-> 0, xs |-> << >>]

\* A function of the client that raises the exception e when it is called.
Raises(e) == [k |-> "raises:" \o e.k, n |-> e.n, xs |-> << >>]

\* callable(v)
Callable(v) ==
    v.k \in {"lambda:int", "lambda:None", "__next__", "raises:exc", "raises:StopIteration"}

\* _make_supplier: a callable is the supplier, a value v becomes lambda: v.
MakeSupplier(v) == IF Callable(v) THEN v ELSE Lambda(v)

\* A bound __next__ that gives the same element again and again.
CallSupplierStuck(s) ==
    IF s.k = "__next__"
    THEN IF s.xs = << >>
         THEN [s |-> s, out |-> StopIteration]
         ELSE [s |-> s, out |-> Elem(Head(s.xs))]
    ELSE [s |-> s, out |-> IF s.k = "lambda:int" THEN IntV(s.n)
                           ELSE IF s.k = "raises:exc" THEN ExcV(s.n)
                           ELSE IF s.k = "raises:StopIteration" THEN StopIteration
                           ELSE NoneV]

\* supplier(): what the call returns or raises (out), and the supplier
\* afterwards (s); the bound __next__ of a list iterator moves on by one
\* and raises StopIteration at the end of the list.
CallSupplier(s) ==
    IF ~Callable(s) THEN [s |-> s, out |-> TypeError]
    ELSE IF s.k = "__next__"
    THEN IF s.xs = << >>
         THEN [s |-> s, out |-> StopIteration]
         ELSE [s |-> [s EXCEPT !.xs = Tail(@)], out |-> Elem(Head(s.xs))]
    ELSE [s |-> s, out |-> IF s.k = "lambda:int" THEN IntV(s.n)
                           ELSE IF s.k = "raises:exc" THEN ExcV(s.n)
                           ELSE IF s.k = "raises:StopIteration" THEN StopIteration
                           ELSE NoneV]

\* The function handed to produce(): x -> x + 1.
Succ(v) == IntV(v.n + 1)

\* f(v) for the functions handed to produce(): x -> x + 1, the same for x
\* below n only and raising from n on, and functions that always raise.
SuccFn == [k |-> "succ", n |-> 0, xs |-> << >>]
SuccBelow(n) == [k |-> "succ_below", n |-> n, xs |-> << >>]
Apply(f, v) ==
    IF f.k = "succ" THEN Succ(v)
    ELSE IF f.k = "succ_below" THEN (IF v.n < f.n THEN Succ(v) ELSE ExcV(1))
    ELSE IF f.k = "raises:exc" THEN ExcV(f.n) ELSE StopIteration

\* What a call raised, as a sequence: empty when it returned.
Raised(out) == IF out.k \in {"exc", "StopIteration"} THEN <<out>> ELSE << >>

\* An Iterator object: its class and its attributes (those of the other
\* classes at their defaults), and invoked, the count of the calls of its
\* supplier or function. Of a _ConcatIterator the record also keeps what
\* its methods did: tried counts the calls next(self.__current), opened
\* lists the sources __set_current_iterator opened, spent tells that the
\* current sub-cursor has raised StopIteration, and again counts the calls
\* next(self.__current) made while spent. Of a _ProducerIterator it keeps
\* fed, the values its function was applied to, in order.
NoCursor == [variant |-> "none", element |-> Void, consumed |-> FALSE,
             iterators |-> << >>, current |-> NoneV, underlying |-> NoneV,
             supplier |-> NoneV, countdown |-> 0, next |-> Void, func |-> NoneV,
             invoked |-> 0, tried |-> 0, opened |-> << >>, spent |-> FALSE,
             again |-> 0, fed |-> << >>]

EmptyIterator == [NoCursor EXCEPT !.variant = "_EmptyIterator"]

\* collection/iterator.py: _SingleIterator.__init__
SingleIterator(e) ==
    [NoCursor EXCEPT !.variant = "_SingleIterator", !.element = e, !.consumed = FALSE]

\* koftipy/iterator.py: _SingleIterator.__init__, an element and no flag.
FlatSingleIterator(e) ==
    [NoCursor EXCEPT !.variant = "iterator._SingleIterator", !.element = e]

\* iter(v): a list or tuple gives a new iterator, an iterator gives itself.
Iter(v) == IF v.k = "list" THEN ListIter(v.xs) ELSE v

\* A concatenation that forgets the sources after the first.
SetCurrentIteratorOnce(self) ==
    IF self.iterators = << >>
    THEN [self EXCEPT !.current = NoneV]
    ELSE [self EXCEPT !.current = Iter(Head(self.iterators)), !.iterators = << >>,
                      !.opened = Append(@, Head(self.iterators)), !.spent = FALSE]

\* Every source opened a second time before the next one is taken.
SetCurrentIteratorTwice(self) ==
    IF self.iterators = << >>
    THEN [self EXCEPT !.current = NoneV]
    ELSE LET again == self.opened # << >> /\ self.opened[Len(self.opened)] = Head(self.iterators)
         IN [self EXCEPT !.current = Iter(Head(self.iterators)),
                         !.iterators = IF again THEN Tail(@) ELSE @,
                         !.opened = Append(@, Head(self.iterators)), !.spent = FALSE]

\* _ConcatIterator.__set_current_iterator: the next source is opened, and
\* the current one is None when no source is left.
SetCurrentIterator(self) ==
    IF self.iterators = << >>
    THEN [self EXCEPT !.current = NoneV]
    ELSE [self EXCEPT !.current = Iter(Head(self.iterators)), !.iterators = Tail(@),
                      !.opened = Append(@, Head(self.iterators)), !.spent = FALSE]

\* _ConcatIterator.__init__
ConcatIterator(srcs) ==
    SetCurrentIterator([NoCursor EXCEPT !.variant = "_ConcatIterator", !.iterators = srcs])

\* _PyIterator.__init__
PyIterator(it) == [NoCursor EXCEPT !.variant = "_PyIterator", !.underlying = it]

\* A countdown that starts one too high.
RepetitiveIteratorOneMore(v, n) ==
    [NoCursor EXCEPT !.variant = "_RepetitiveIterator",
                     !.supplier = MakeSupplier(v), !.countdown = n + 1]

\* _RepetitiveIterator.__init__
RepetitiveIterator(v, n) ==
    [NoCursor EXCEPT !.variant = "_RepetitiveIterator",
                     !.supplier = MakeSupplier(v), !.countdown = n]

\* _UntilNoneIterator.__init__
UntilNoneIterator(s) == [NoCursor EXCEPT !.variant = "_UntilNoneIterator", !.supplier = s]

\* A repetition that ends after one element.
InfiniteIteratorOnce(v) ==
    [NoCursor EXCEPT !.variant = "_RepetitiveIterator",
                     !.supplier = MakeSupplier(v), !.countdown = 1]

\* _InfiniteIterator.__init__
InfiniteIterator(v) ==
    [NoCursor EXCEPT !.variant = "_InfiniteIterator", !.supplier = MakeSupplier(v)]

\* A producer that starts from f(seed).
ProducerIteratorAhead(seed) ==
    [NoCursor EXCEPT !.variant = "_ProducerIterator", !.next = Succ(seed), !.func = SuccFn]

\* _ProducerIterator.__init__, for the function f
ProducerIteratorWith(seed, f) ==
    [NoCursor EXCEPT !.variant = "_ProducerIterator", !.next = seed, !.func = f]

\* _ProducerIterator.__init__, for x -> x + 1
ProducerIterator(seed) == ProducerIteratorWith(seed, SuccFn)

\* A __next__ that gives the repetition back when the supplier raises.
RepetitiveNextRefunding(self) ==
    IF self.countdown <= 0
    THEN [self |-> self, out |-> StopIteration, raised |-> << >>]
    ELSE LET r == CallSupplier(self.supplier)
         IN [self |-> [self EXCEPT !.countdown = IF Raised(r.out) # << >> THEN @ ELSE @ - 1,
                                   !.supplier = r.s, !.invoked = @ + 1],
             out |-> r.out, raised |-> Raised(r.out)]

\* _RepetitiveIterator.__next__: the object afterwards, what the call
\* returns or raises, and what the supplier raised. The countdown goes
\* down before the supplier is called.
RepetitiveNext(self) ==
    IF self.countdown <= 0
    THEN [self |-> self, out |-> StopIteration, raised |-> << >>]
    ELSE LET r == CallSupplier(self.supplier)
         IN [self |-> [self EXCEPT !.countdown = @ - 1, !.supplier = r.s,
                                   !.invoked = @ + 1],
             out |-> r.out, raised |-> Raised(r.out)]

\* A __next__ that has lost its stored value when the function raises.
ProducerNextLosing(self) ==
    LET y == Apply(self.func, self.next)
    IN IF Raised(y) # << >>
       THEN [self |-> [self EXCEPT !.next = NoneV, !.invoked = @ + 1,
                                   !.fed = Append(@, self.next)],
             out |-> y, raised |-> <<y>>]
       ELSE [self |-> [self EXCEPT !.next = y, !.invoked = @ + 1,
                                   !.fed = Append(@, self.next)],
             out |-> self.next, raised |-> << >>]

\* _ProducerIterator.__next__: current = self.__next; self.__next =
\* self.__func(current); return current. When the function raises, the
\* assignment does not happen and the exception leaves __next__.
ProducerNext(self) ==
    LET y == Apply(self.func, self.next)
    IN IF Raised(y) # << >>
       THEN [self |-> [self EXCEPT !.invoked = @ + 1, !.fed = Append(@, self.next)],
             out |-> y, raised |-> <<y>>]
       ELSE [self |-> [self EXCEPT !.next = y, !.invoked = @ + 1,
                                   !.fed = Append(@, self.next)],
             out |-> self.next, raised |-> << >>]

\* next(c) for the Iterator object c of the heap h: the heap afterwards,
\* what the call returns or raises (out), and what the functions of the
\* client raised while it ran, in order (raised).
RECURSIVE Advance(_, _)

\* next(it) for a Python iterator it: a list iterator gives its next
\* element, a reference to an Iterator object calls its __next__.
NextOf(h, it) ==
    IF it.k = "list_iterator"
    THEN IF it.xs = << >>
         THEN [h |-> h, it |-> it, out |-> StopIteration, raised |-> << >>]
         ELSE [h |-> h, it |-> [it EXCEPT !.xs = Tail(@)], out |-> Elem(Head(it.xs)),
               raised |-> << >>]
    ELSE LET r == Advance(h, it.n)
         IN [h |-> r.h, it |-> it, out |-> r.out, raised |-> r.raised]

Advance(h, c) ==
    LET self == h[c]
        stop == [h |-> h, out |-> StopIteration, raised |-> << >>]
    IN CASE self.variant = "_EmptyIterator" -> stop
         [] self.variant = "_SingleIterator" ->
              IF self.consumed THEN stop
              ELSE [h |-> [h EXCEPT ![c].consumed = TRUE], out |-> self.element,
                    raised |-> << >>]
         [] self.variant = "iterator._SingleIterator" ->
              [h |-> h, out |-> self.element, raised |-> << >>]
         [] self.variant = "_ConcatIterator" ->
              IF self.current = NoneV THEN stop
              ELSE LET r == NextOf(h, self.current)
                       h1 == [r.h EXCEPT ![c].current = r.it, ![c].tried = @ + 1,
                                         ![c].again = @ + IF self.spent THEN 1 ELSE 0]
                       h2 == [h1 EXCEPT ![c].spent = TRUE]
                   IN IF r.out # StopIteration
                      THEN [h |-> h1, out |-> r.out, raised |-> r.raised]
                      ELSE IF self.iterators # << >> /\ Head(self.iterators) = NoneV
                      THEN [h |-> [h2 EXCEPT ![c].iterators = Tail(@)], out |-> TypeError,
                            raised |-> r.raised]
                      ELSE LET r2 == Advance([h2 EXCEPT ![c] = SetCurrentIterator(@)], c)
                           IN [r2 EXCEPT !.raised = r.raised \o @]
         [] self.variant = "_PyIterator" ->
              LET r == NextOf(h, self.underlying)
              IN [h |-> [r.h EXCEPT ![c].underlying = r.it], out |-> r.out,
                  raised |-> r.raised]
         [] self.variant = "_InfiniteIterator" ->
              LET r == CallSupplier(self.supplier)
              IN [h |-> [h EXCEPT ![c].supplier = r.s, ![c].invoked = @ + 1],
                  out |-> r.out, raised |-> Raised(r.out)]
         [] self.variant = "_RepetitiveIterator" ->
              LET r == RepetitiveNext(self)
              IN [h |-> [h EXCEPT ![c] = r.self], out |-> r.out, raised |-> r.raised]
         [] self.variant = "_UntilNoneIterator" ->
              LET r == CallSupplier(self.supplier)
              IN [h |-> [h EXCEPT ![c].supplier = r.s, ![c].invoked = @ + 1],
                  out |-> IF r.out = NoneV THEN StopIteration ELSE r.out,
                  raised |-> Raised(r.out)]
         [] self.variant = "_ProducerIterator" ->
              LET r == ProducerNext(self)
              IN [h |-> [h EXCEPT ![c] = r.self], out |-> r.out, raised |-> r.raised]

\* ---------------------------------------------------------------- options
\* koftipy/option.py.  The string '' as a value.
EmptyStr == [k |-> "str", n |-> 0, xs |-> << >>]

\* What Nothing.get() raises.
ValueError == [k |-> "ValueError", n |-> 0, xs |-> << >>]

\* The i-th Some object; s, below, is the sequence of the values of the
\* Some objects constructed so far.  Nothing, the one instance of
\* _Nothing, is NothingV.
SomeObj(i) == [k |-> "Some", n |-> i, xs |-> << >>]

\* isinstance(v, Option)
IsOption(v) == v.k \in {"Some", "Nothing"}

\* Some.get and _Nothing.get
Get(s, o) == IF o.k = "Some" THEN s[o.n] ELSE ValueError

\* a == b: Some.__eq__ and _Nothing.__eq__ for options, Python's == for
\* the other values (False == 0 and True == 1).
RECURSIVE PyEq(_, _, _)
PyEq(s, a, b) ==
    IF a.k = "Some"
    THEN b.k = "Some" /\ (a.n = b.n \/ PyEq(s, s[a.n], s[b.n]))
    ELSE IF a.k = "Nothing" THEN b.k = "Nothing" /\ b.n = a.n
    ELSE IF IsOption(b) THEN FALSE
    ELSE IF a.k \in {"int", "bool"} /\ b.k \in {"int", "bool"} THEN a.n = b.n
    ELSE a = b

\* A constructor that forgets the value.
MakeSomeOfNone(s, v) == [s |-> Append(s, NoneV), out |-> SomeObj(Len(s) + 1)]

\* Some(value), and Option.some(value)
MakeSome(s, v) == [s |-> Append(s, v), out |-> SomeObj(Len(s) + 1)]

\* An Option.nothing() that makes a new _Nothing.
OptionNothingNew(s) == [s |-> s, out |-> [NothingV EXCEPT !.n = 1]]

\* Option.nothing()
OptionNothing(s) == [s |-> s, out |-> NothingV]

\* Option.when(condition, value)
OptionWhen(s, cond, v) ==
    IF cond THEN MakeSome(s, IF Callable(v) THEN CallSupplier(v).out ELSE v)
    ELSE OptionNothing(s)

\* Option.of_truthy(value)
OfTruthy(s, v) == OptionWhen(s, Truthy(v), v)

\* An Option.of that tests the truth value.
OptionOfTruthy(s, v) == IF Truthy(v) THEN MakeSome(s, v) ELSE OptionNothing(s)

\* Option.of(value)
OptionOf(s, v) == IF v # NoneV THEN MakeSome(s, v) ELSE OptionNothing(s)

\* Option.map(f)
OptionMap(s, o, fn) ==
    IF o.k # "Some" THEN OptionNothing(s) ELSE MakeSome(s, CallFn(fn, Get(s, o)))

\* Option.flat_map(f), for f = Option.some and f = lambda x: Nothing
FlatMap(s, o, fn) ==
    IF o.k # "Some" THEN OptionNothing(s)
    ELSE IF fn = "some" THEN MakeSome(s, Get(s, o)) ELSE OptionNothing(s)

\* Option.filter(p)
OptionFilter(s, o, p) ==
    IF o.k = "Some" /\ Truthy(Test(PredicateOf(p), Get(s, o)))
    THEN [s |-> s, out |-> o]
    ELSE OptionNothing(s)

\* A flatten that removes one level only.
FlattenOnce(s, o) ==
    IF o.k # "Some" THEN o
    ELSE IF IsOption(Get(s, o)) THEN Get(s, o) ELSE o

\* Option.flatten
RECURSIVE Flatten(_, _)
Flatten(s, o) ==
    IF o.k # "Some" THEN o
    ELSE IF IsOption(Get(s, o)) THEN Flatten(s, Get(s, o)) ELSE o

\* A list element as a number: 0 for None.
ElemNum(v) == IF v = NoneV THEN 0 ELSE v.n

\* Option.sequence(options)
OptionSequence(s, os) ==
    IF \E i \in DOMAIN os : os[i].k # "Some" THEN OptionNothing(s)
    ELSE MakeSome(s, ListV([i \in DOMAIN os |-> ElemNum(Get(s, os[i]))]))

\* ---------------------------------------------------------------- predicates
\* koftipy/predicate.py.  A Predicate object as a tree: a leaf (a _Custom,
\* with the _Negate layers right above it), or an _And, _Or or _Negate
\* over the Predicate objects in kids.
Leaf(p) == [op |-> "leaf", kids |-> << >>, leaf |-> p]

\* _And.__init__, _Or.__init__, _Negate.__init__
AndOf(ps) == [op |-> "and", kids |-> ps, leaf |-> NoPred]
OrOf(ps) == [op |-> "or", kids |-> ps, leaf |-> NoPred]
NegateOf(t) == [op |-> "not", kids |-> <<t>>, leaf |-> NoPred]

\* Predicates.all_of, any_of, not_ and none_of
AllOf(first, others) == AndOf(<<first>> \o others)
AnyOf(first, others) == OrOf(<<first>> \o others)
Not(other) == NegateOf(other)
NoneOf(first, others) == Not(AnyOf(first, others))

\* t.test(v): what it returns (out) and the functions of the client it
\* calls, in order (log).
RECURSIVE TestTree(_, _)
RECURSIVE AndTest(_, _)

\* An _And.test that asks every constituent.
RECURSIVE AndTestAll(_, _)
AndTestAll(ps, v) ==
    IF ps = << >> THEN [out |-> BoolV(TRUE), log |-> << >>]
    ELSE LET r == TestTree(Head(ps), v)
             r2 == AndTestAll(Tail(ps), v)
         IN [out |-> IF r.out = BoolV(FALSE) THEN BoolV(FALSE) ELSE r2.out,
             log |-> r.log \o r2.log]

\* _And.test: False at the first constituent whose test() is False, True
\* when there is none.
AndTest(ps, v) ==
    IF ps = << >> THEN [out |-> BoolV(TRUE), log |-> << >>]
    ELSE LET r == TestTree(Head(ps), v)
         IN IF r.out = BoolV(FALSE) THEN r
            ELSE LET r2 == AndTest(Tail(ps), v)
                 IN [out |-> r2.out, log |-> r.log \o r2.log]

\* _Or.test: True at the first constituent whose test() is True, False
\* when there is none.
RECURSIVE OrTest(_, _)
OrTest(ps, v) ==
    IF ps = << >> THEN [out |-> BoolV(FALSE), log |-> << >>]
    ELSE LET r == TestTree(Head(ps), v)
         IN IF r.out = BoolV(TRUE) THEN r
            ELSE LET r2 == OrTest(Tail(ps), v)
                 IN [out |-> r2.out, log |-> r.log \o r2.log]

TestTree(t, v) ==
    CASE t.op = "leaf" -> [out |-> Test(t.leaf, v), log |-> <<t.leaf.fn>>]
      [] t.op = "and" -> AndTest(t.kids, v)
      [] t.op = "or" -> OrTest(t.kids, v)
      [] t.op = "not" ->
           LET r == TestTree(t.kids[1], v)
           IN [out |-> BoolV(~Truthy(r.out)), log |-> r.log]

\* A call on Option or Predicate: the method, its arguments (values a and
\* b, a predicate p, a list os of options, the Predicate object tree it
\* is called on or makes), what it returned or raised, and the functions
\* of the client that were called meanwhile.
NoCall == [fn |-> "none", a |-> Void, b |-> Void, p |-> NoPred, os |-> << >>, out |-> Void,
           tree |-> Leaf(NoPred), log |-> << >>]

VARIABLES
    kind,      \* kind[l]: "none" (not constructed), "thunk", "map", "seq"
    src,       \* src[l]: the Lazy objects the supplier closes over
    supplier,  \* supplier[l]: self.__supplier, "fn" or "None"
    value,     \* value[l]: self.__value
    lock,      \* lock[l]: the thread holding self.__lock, 0 when free
    calls,     \* calls[l]: invocations of the supplier (side-effect counter)
    fails,     \* fails[l]: invocations of the supplier that raised
    applied,   \* applied[l]: applications of the mapper f of a mapped Lazy
    returned,  \* returned[l]: the values get() has returned for l
    stack,     \* stack[t]: the call frames of thread t, innermost first
    ret,       \* ret[t]: the value or exception passing from callee to caller
    op,        \* op[t]: the client call thread t is in
    ops,       \* ops: client calls started so far, by all threads
    result,    \* result: the last client call that returned, and what it returned
    heap,      \* heap[c]: the Iterator object c
    built,     \* built[c]: the call that constructed c, with its arguments
    hist,      \* hist[c]: what the client's next(c) calls returned or raised, in order
    advances,  \* advances: next() calls of the client so far
    somes,     \* somes[i]: the value of the i-th Some object constructed
    preds,     \* preds[i]: the i-th Predicate object constructed
    called     \* called: the last call on Option or Predicate, and what it returned

vars == <<kind, src, supplier, value, lock, calls, fails, applied, returned,
          stack, ret, op, ops, result, heap, built, hist, advances, somes, preds, called>>

lazyVars == <<kind, src, supplier, value, lock>>
ghostVars == <<calls, fails, applied, returned>>
cursorVars == <<heap, built, hist, advances>>
optionVars == <<somes, preds, called>>

Idle == [kind |-> "idle", l |-> 0, l2 |-> 0, p |-> NoPred, first |-> Void]
Call(k, l) == [Idle EXCEPT !.kind = k, !.l = l]
\* The last call that returned: who called what on which Lazy, with which
\* other Lazy (l2) or predicate (p), and what came back.
NoResult == [t |-> 0, kind |-> "none", l |-> 0, val |-> Void, l2 |-> 0, p |-> NoPred]
Result(t, k, l, v) == [NoResult EXCEPT !.t = t, !.kind = k, !.l = l, !.val = v]

\* How an Iterator object came to be: the constructor called (fn), the
\* elements (xs), sources (args) or value (v) it was given, the count n.
NotBuilt == [fn |-> "none", xs |-> << >>, args |-> << >>, v |-> Void, n |-> 0]
BuiltBy(fn) == [NotBuilt EXCEPT !.fn = fn]

\* The Iterator objects not yet constructed, and the next one to be.
Free == {c \in Cursors : heap[c].variant = "none"}
NewCursor == CHOOSE c \in Free : \A d \in Free : c <= d

Frame(l) == [l |-> l, pc |-> "get", sup |-> "None", i |-> 0, acc |-> << >>]

Constructed == {l \in Lazies : kind[l] # "none"}
NextId == Cardinality(Constructed) + 1

\* A Lazy that takes a cached value other than None for "computed".
IsComputedByValue(l) == value[l] # NoneV

\* Lazy.is_computed
IsComputed(l) == supplier[l] = "None"

Top(t) == Head(stack[t])
InFrame(t, pc) == stack[t] # << >> /\ Top(t).pc = pc
SetTop(t, f) == [stack EXCEPT ![t] = <<f>> \o Tail(@)]
Pop(t) == [stack EXCEPT ![t] = Tail(@)]
Push(t, f, g) == [stack EXCEPT ![t] = <<g, f>> \o Tail(@)]

\* Lazy.__init__: one Lazy.of(thunk) has been constructed.
Init ==
    /\ kind = [l \in Lazies |-> IF l = 1 THEN "thunk" ELSE "none"]
    /\ src = [l \in Lazies |-> << >>]
    /\ supplier = [l \in Lazies |-> IF l = 1 THEN "fn" ELSE "None"]
    /\ value = [l \in Lazies |-> NoneV]
    /\ lock = [l \in Lazies |-> 0]
    /\ calls = [l \in Lazies |-> 0]
    /\ fails = [l \in Lazies |-> 0]
    /\ applied = [l \in Lazies |-> 0]
    /\ returned = [l \in Lazies |-> {}]
    /\ stack = [t \in Threads |-> << >>]
    /\ ret = [t \in Threads |-> Void]
    /\ op = [t \in Threads |-> Idle]
    /\ ops = 0
    /\ result = NoResult
    /\ heap = [c \in Cursors |-> NoCursor]
    /\ built = [c \in Cursors |-> NotBuilt]
    /\ hist = [c \in Cursors |-> << >>]
    /\ advances = 0
    /\ somes = << >>
    /\ preds = << >>
    /\ called = NoCall

CanStart(t) == op[t] = Idle /\ ops < MaxOps

\* A client calls l.get() (or l()).
StartGet(t, l) ==
    /\ CanStart(t)
    /\ l \in Constructed
    /\ op' = [op EXCEPT ![t] = Call("get", l)]
    /\ ops' = ops + 1
    /\ stack' = [stack EXCEPT ![t] = <<Frame(l)>>]
    /\ UNCHANGED <<cursorVars, optionVars, lazyVars, ghostVars, ret, result>>

\* Lazy.get, the unlocked check.
GetCheck(t) ==
    /\ InFrame(t, "get")
    /\ stack' = SetTop(t, [Top(t) EXCEPT
                     !.pc = IF supplier[Top(t).l] = "None" THEN "fast" ELSE "cv_read"])
    /\ UNCHANGED <<cursorVars, optionVars, lazyVars, ghostVars, ret, op, ops, result>>

\* Lazy.get, the lock-free return of the cached value.
GetFast(t) ==
    /\ InFrame(t, "fast")
    /\ ret' = [ret EXCEPT ![t] = value[Top(t).l]]
    /\ returned' = [returned EXCEPT ![Top(t).l] = @ \cup {value[Top(t).l]}]
    /\ stack' = Pop(t)
    /\ UNCHANGED <<cursorVars, optionVars, lazyVars, calls, fails, applied, op, ops, result>>

\* Lazy.__compute_value: supplier = self.__supplier, before the lock.
CvRead(t) ==
    /\ InFrame(t, "cv_read")
    /\ stack' = SetTop(t, [Top(t) EXCEPT !.sup = supplier[Top(t).l], !.pc = "cv_lock"])
    /\ UNCHANGED <<cursorVars, optionVars, lazyVars, ghostVars, ret, op, ops, result>>

\* The test made once the lock is held: of the local read before the lock.
ComputeGuard(sup, l) == sup # "None"

\* A with block that does not wait for the lock to be free.
CvLockNoWait(t) ==
    /\ InFrame(t, "cv_lock")
    /\ lock' = [lock EXCEPT ![Top(t).l] = t]
    /\ stack' = SetTop(t, [Top(t) EXCEPT
                     !.pc = IF ComputeGuard(Top(t).sup, Top(t).l) THEN "cv_call" ELSE "cv_ret"])
    /\ UNCHANGED <<cursorVars, optionVars, kind, src, supplier, value, ghostVars, ret, op, ops, result>>

\* A with block over a lock the thread that holds it may take again.
CvLockReentrant(t) ==
    /\ InFrame(t, "cv_lock")
    /\ lock[Top(t).l] \in {0, t}
    /\ lock' = [lock EXCEPT ![Top(t).l] = t]
    /\ stack' = SetTop(t, [Top(t) EXCEPT
                     !.pc = IF ComputeGuard(Top(t).sup, Top(t).l) THEN "cv_call" ELSE "cv_ret"])
    /\ UNCHANGED <<cursorVars, optionVars, kind, src, supplier, value, ghostVars, ret, op, ops, result>>

\* with self.__lock: if supplier is not None
CvLock(t) ==
    /\ InFrame(t, "cv_lock")
    /\ lock[Top(t).l] = 0
    /\ lock' = [lock EXCEPT ![Top(t).l] = t]
    /\ stack' = SetTop(t, [Top(t) EXCEPT
                     !.pc = IF ComputeGuard(Top(t).sup, Top(t).l) THEN "cv_call" ELSE "cv_ret"])
    /\ UNCHANGED <<cursorVars, optionVars, kind, src, supplier, value, ghostVars, ret, op, ops, result>>

\* supplier() of a Lazy.of(thunk): the thunk returns some value.
CallThunk(t) ==
    /\ InFrame(t, "cv_call")
    /\ kind[Top(t).l] = "thunk"
    /\ ret[t] = Void
    /\ \E v \in Values : ret' = [ret EXCEPT ![t] = IntV(v)]
    /\ calls' = [calls EXCEPT ![Top(t).l] = @ + 1]
    /\ stack' = SetTop(t, [Top(t) EXCEPT !.pc = "cv_store"])
    /\ UNCHANGED <<cursorVars, optionVars, lazyVars, fails, applied, returned, op, ops, result>>

\* supplier() of a Lazy.of(thunk): the thunk raises.
CallThunkRaise(t) ==
    /\ InFrame(t, "cv_call")
    /\ kind[Top(t).l] = "thunk"
    /\ ret[t] = Void
    /\ ret' = [ret EXCEPT ![t] = ExcV(Top(t).l)]
    /\ calls' = [calls EXCEPT ![Top(t).l] = @ + 1]
    /\ UNCHANGED <<cursorVars, optionVars, lazyVars, fails, applied, returned, stack, op, ops, result>>

\* supplier() of a Lazy.of(lambda: None).
CallThunkNone(t) ==
    /\ InFrame(t, "cv_call")
    /\ kind[Top(t).l] = "none_thunk"
    /\ ret[t] = Void
    /\ ret' = [ret EXCEPT ![t] = NoneV]
    /\ calls' = [calls EXCEPT ![Top(t).l] = @ + 1]
    /\ stack' = SetTop(t, [Top(t) EXCEPT !.pc = "cv_store"])
    /\ UNCHANGED <<cursorVars, optionVars, lazyVars, fails, applied, returned, op, ops, result>>

\* supplier() of a Lazy.of(lambda: f(x.get())) whose x is the Lazy itself, or
\* a Lazy mapped from it: the call of x.get(), made with the lock held.
CallSelf(t) ==
    /\ InFrame(t, "cv_call")
    /\ kind[Top(t).l] = "self"
    /\ ret[t] = Void
    /\ calls' = [calls EXCEPT ![Top(t).l] = @ + 1]
    /\ stack' = Push(t, [Top(t) EXCEPT !.pc = "map_wait"], Frame(src[Top(t).l][1]))
    /\ UNCHANGED <<cursorVars, optionVars, lazyVars, fails, applied, returned, ret, op, ops, result>>

\* supplier() of l.map(f), lambda: f(self.get()): the call of self.get().
CallMap(t) ==
    /\ InFrame(t, "cv_call")
    /\ kind[Top(t).l] = "map"
    /\ ret[t] = Void
    /\ calls' = [calls EXCEPT ![Top(t).l] = @ + 1]
    /\ stack' = Push(t, [Top(t) EXCEPT !.pc = "map_wait"], Frame(src[Top(t).l][1]))
    /\ UNCHANGED <<cursorVars, optionVars, lazyVars, fails, applied, returned, ret, op, ops, result>>

\* The mapped supplier without f: lambda: self.get().
MapApplyNoF(t) ==
    /\ InFrame(t, "map_wait")
    /\ IsValue(ret[t])
    /\ applied' = [applied EXCEPT ![Top(t).l] = @ + 1]
    /\ stack' = SetTop(t, [Top(t) EXCEPT !.pc = "cv_store"])
    /\ UNCHANGED <<cursorVars, optionVars, lazyVars, calls, fails, returned, ret, op, ops, result>>

\* supplier() of l.map(f): f applied to what self.get() returned.
MapApply(t) ==
    /\ InFrame(t, "map_wait")
    /\ IsValue(ret[t])
    /\ ret' = [ret EXCEPT ![t] = F(@)]
    /\ applied' = [applied EXCEPT ![Top(t).l] = @ + 1]
    /\ stack' = SetTop(t, [Top(t) EXCEPT !.pc = "cv_store"])
    /\ UNCHANGED <<cursorVars, optionVars, lazyVars, calls, fails, returned, op, ops, result>>

\* supplier() of Lazy.sequence(lazies): list(map(lambda lazy: lazy.get(), lazies))
\* starts with the empty list.
CallSeq(t) ==
    /\ InFrame(t, "cv_call")
    /\ kind[Top(t).l] = "seq"
    /\ ret[t] = Void
    /\ calls' = [calls EXCEPT ![Top(t).l] = @ + 1]
    /\ stack' = SetTop(t, [Top(t) EXCEPT !.pc = "seq_next", !.i = 1, !.acc = << >>])
    /\ UNCHANGED <<cursorVars, optionVars, lazyVars, fails, applied, returned, ret, op, ops, result>>

\* The list built back to front.
CollectReversed(acc, v) == <<v.n>> \o acc

\* The list grows by the value the inner get() returned.
Collect(acc, v) == Append(acc, v.n)

\* Lazy.sequence: lazy.get() of the next inner Lazy, or the finished list.
SeqNext(t) ==
    /\ InFrame(t, "seq_next")
    /\ IF Top(t).i <= Len(src[Top(t).l])
       THEN /\ stack' = Push(t, [Top(t) EXCEPT !.pc = "seq_wait"],
                             Frame(src[Top(t).l][Top(t).i]))
            /\ ret' = ret
       ELSE /\ stack' = SetTop(t, [Top(t) EXCEPT !.pc = "cv_store", !.i = 0, !.acc = << >>])
            /\ ret' = [ret EXCEPT ![t] = ListV(Top(t).acc)]
    /\ UNCHANGED <<cursorVars, optionVars, lazyVars, ghostVars, op, ops, result>>

\* Lazy.sequence: the inner get() returned.
SeqCollect(t) ==
    /\ InFrame(t, "seq_wait")
    /\ IsValue(ret[t])
    /\ stack' = SetTop(t, [Top(t) EXCEPT !.pc = "seq_next", !.i = @ + 1,
                                          !.acc = Collect(@, ret[t])])
    /\ ret' = [ret EXCEPT ![t] = Void]
    /\ UNCHANGED <<cursorVars, optionVars, lazyVars, ghostVars, op, ops, result>>

\* A failure handler that puts the computation reference back.
PropagateRestoring(t) ==
    /\ stack[t] # << >>
    /\ ret[t].k = "exc"
    /\ lock' = [lock EXCEPT ![Top(t).l] = 0]
    /\ supplier' = [supplier EXCEPT ![Top(t).l] = "fn"]
    /\ fails' = [fails EXCEPT ![Top(t).l] = @ + 1]
    /\ stack' = Pop(t)
    /\ UNCHANGED <<cursorVars, optionVars, kind, src, value, calls, applied, returned, ret, op, ops, result>>

\* A with block that keeps the lock when an exception leaves it.
PropagateHolding(t) ==
    /\ stack[t] # << >>
    /\ ret[t].k = "exc"
    /\ fails' = [fails EXCEPT ![Top(t).l] = @ + 1]
    /\ stack' = Pop(t)
    /\ UNCHANGED <<cursorVars, optionVars, lazyVars, calls, applied, returned, ret, op, ops, result>>

\* An exception leaves __compute_value: the with block releases the lock,
\* nothing is assigned, and the exception goes on to the caller.
Propagate(t) ==
    /\ stack[t] # << >>
    /\ ret[t].k = "exc"
    /\ lock' = [lock EXCEPT ![Top(t).l] = 0]
    /\ fails' = [fails EXCEPT ![Top(t).l] = @ + 1]
    /\ stack' = Pop(t)
    /\ UNCHANGED <<cursorVars, optionVars, kind, src, supplier, value, calls, applied, returned, ret, op, ops, result>>

\* The two writes in the other order: the reference is cleared first.
CvStoreAfterClear(t) ==
    \/ /\ InFrame(t, "cv_store")
       /\ supplier' = [supplier EXCEPT ![Top(t).l] = "None"]
       /\ stack' = SetTop(t, [Top(t) EXCEPT !.pc = "cv_store2"])
       /\ UNCHANGED <<cursorVars, optionVars, kind, src, value, lock, ghostVars, ret, op, ops, result>>
    \/ /\ InFrame(t, "cv_store2")
       /\ value' = [value EXCEPT ![Top(t).l] = ret[t]]
       /\ ret' = [ret EXCEPT ![t] = Void]
       /\ stack' = SetTop(t, [Top(t) EXCEPT !.pc = "cv_clear"])
       /\ UNCHANGED <<cursorVars, optionVars, kind, src, supplier, lock, ghostVars, op, ops, result>>

\* self.__value = supplier()
CvStore(t) ==
    /\ InFrame(t, "cv_store")
    /\ value' = [value EXCEPT ![Top(t).l] = ret[t]]
    /\ ret' = [ret EXCEPT ![t] = Void]
    /\ stack' = SetTop(t, [Top(t) EXCEPT !.pc = "cv_clear"])
    /\ UNCHANGED <<cursorVars, optionVars, kind, src, supplier, lock, ghostVars, op, ops, result>>

\* The reference is left set after a successful computation.
CvClearMissing(t) ==
    /\ InFrame(t, "cv_clear")
    /\ stack' = SetTop(t, [Top(t) EXCEPT !.pc = "cv_ret"])
    /\ UNCHANGED <<cursorVars, optionVars, lazyVars, ghostVars, ret, op, ops, result>>

\* self.__supplier = None
CvClear(t) ==
    /\ InFrame(t, "cv_clear")
    /\ supplier' = [supplier EXCEPT ![Top(t).l] = "None"]
    /\ stack' = SetTop(t, [Top(t) EXCEPT !.pc = "cv_ret"])
    /\ UNCHANGED <<cursorVars, optionVars, kind, src, value, lock, ghostVars, ret, op, ops, result>>

\* return self.__value, leaving the with block.
CvRet(t) ==
    /\ InFrame(t, "cv_ret")
    /\ ret' = [ret EXCEPT ![t] = value[Top(t).l]]
    /\ returned' = [returned EXCEPT ![Top(t).l] = @ \cup {value[Top(t).l]}]
    /\ lock' = [lock EXCEPT ![Top(t).l] = 0]
    /\ stack' = Pop(t)
    /\ UNCHANGED <<cursorVars, optionVars, kind, src, supplier, value, calls, fails, applied, op, ops, result>>

\* A client calls l.filter(p): value = self.get() comes first.
StartFilter(t, l, p) ==
    /\ CanStart(t)
    /\ l \in Constructed
    /\ kind[l] \in {"thunk", "none_thunk", "map"}
    /\ op' = [op EXCEPT ![t] = [Call("filter", l) EXCEPT !.p = p]]
    /\ ops' = ops + 1
    /\ stack' = [stack EXCEPT ![t] = <<Frame(l)>>]
    /\ UNCHANGED <<cursorVars, optionVars, lazyVars, ghostVars, ret, result>>

\* A client calls l.filter_not(p): self.filter(Predicate.of(p).negate()).
StartFilterNot(t, l, p) ==
    /\ CanStart(t)
    /\ l \in Constructed
    /\ kind[l] \in {"thunk", "none_thunk", "map"}
    /\ op' = [op EXCEPT ![t] = [Call("filter_not", l) EXCEPT !.p = p]]
    /\ ops' = ops + 1
    /\ stack' = [stack EXCEPT ![t] = <<Frame(l)>>]
    /\ UNCHANGED <<cursorVars, optionVars, lazyVars, ghostVars, ret, result>>

\* A client calls iter(l): Iterator.of(self.get()).
StartIter(t, l) ==
    /\ CanStart(t)
    /\ l \in Constructed
    /\ op' = [op EXCEPT ![t] = Call("iter", l)]
    /\ ops' = ops + 1
    /\ stack' = [stack EXCEPT ![t] = <<Frame(l)>>]
    /\ UNCHANGED <<cursorVars, optionVars, lazyVars, ghostVars, ret, result>>

\* A client calls iter(l) on a Lazy of koftipy/control/lazy.py.
StartIterControl(t, l) ==
    /\ CanStart(t)
    /\ l \in Constructed
    /\ op' = [op EXCEPT ![t] = Call("control.iter", l)]
    /\ ops' = ops + 1
    /\ stack' = [stack EXCEPT ![t] = <<Frame(l)>>]
    /\ UNCHANGED <<cursorVars, optionVars, lazyVars, ghostVars, ret, result>>

\* A client evaluates l == o for another Lazy o: self.get() comes first.
StartEq(t, l, o) ==
    /\ CanStart(t)
    /\ l \in Constructed /\ o \in Constructed /\ o # l
    /\ op' = [op EXCEPT ![t] = [Call("eq", l) EXCEPT !.l2 = o]]
    /\ ops' = ops + 1
    /\ stack' = [stack EXCEPT ![t] = <<Frame(l)>>]
    /\ UNCHANGED <<cursorVars, optionVars, lazyVars, ghostVars, ret, result>>

\* An equality that holds whatever the other operand is.
EqOpAlwaysTrue(t, l, o) ==
    /\ CanStart(t)
    /\ l \in Constructed /\ o \in {0, l}
    /\ ops' = ops + 1
    /\ result' = [Result(t, "eq", l, BoolV(TRUE)) EXCEPT !.l2 = o]
    /\ UNCHANGED <<cursorVars, optionVars, lazyVars, ghostVars, stack, ret, op>>

\* Lazy.__eq__ when other is this Lazy (o = l) or no Lazy (o = 0): no get().
EqOp(t, l, o) ==
    /\ CanStart(t)
    /\ l \in Constructed /\ o \in {0, l}
    /\ ops' = ops + 1
    /\ result' = [Result(t, "eq", l, BoolV(o = l)) EXCEPT !.l2 = o]
    /\ UNCHANGED <<cursorVars, optionVars, lazyVars, ghostVars, stack, ret, op>>

\* Lazy.__eq__: self.get() returned, other.get() is called.
EqSecond(t) ==
    /\ op[t].kind = "eq" /\ op[t].first = Void
    /\ stack[t] = << >>
    /\ IsValue(ret[t])
    /\ op' = [op EXCEPT ![t].first = ret[t]]
    /\ ret' = [ret EXCEPT ![t] = Void]
    /\ stack' = [stack EXCEPT ![t] = <<Frame(op[t].l2)>>]
    /\ UNCHANGED <<cursorVars, optionVars, lazyVars, ghostVars, ops, result>>

\* iter(l) of a Lazy of koftipy/lazy.py, and of koftipy/control/lazy.py.
IterKinds == {"iter", "control.iter"}

\* Iterator.of(self.get()): koftipy/lazy.py builds the Iterator of
\* koftipy/iterator.py, koftipy/control/lazy.py the one of the collection
\* package.
IteratorOf(o, v) ==
    IF o.kind = "iter" THEN FlatSingleIterator(v) ELSE SingleIterator(v)

\* Lazy.filter once self.get() has returned v.
Filter(p, v) == IF Truthy(Test(PredicateOf(p), v)) THEN SomeV(v) ELSE NothingV

\* What the client call returns, given what its last get() returned.
Outcome(o, v) ==
    IF v.k = "exc" THEN v
    ELSE IF o.kind = "filter" THEN Filter(o.p, v)
    ELSE IF o.kind = "filter_not" THEN Filter(Negate(PredicateOf(o.p)), v)
    ELSE IF o.kind = "eq" THEN BoolV(o.first = v)
    ELSE IF o.kind \in IterKinds THEN CursorRef(NewCursor)
    ELSE v

\* The client call returns to the client, or raises there.
Complete(t) ==
    /\ op[t] # Idle
    /\ stack[t] = << >>
    /\ ret[t] # Void
    /\ ~(op[t].kind = "eq" /\ op[t].first = Void /\ IsValue(ret[t]))
    /\ result' = [Result(t, op[t].kind, op[t].l, Outcome(op[t], ret[t]))
                     EXCEPT !.l2 = op[t].l2, !.p = op[t].p]
    /\ ret' = [ret EXCEPT ![t] = Void]
    /\ op' = [op EXCEPT ![t] = Idle]
    /\ IF op[t].kind \in IterKinds /\ IsValue(ret[t])
       THEN /\ Free # {}
            /\ heap' = [heap EXCEPT ![NewCursor] = IteratorOf(op[t], ret[t])]
            /\ built' = [built EXCEPT ![NewCursor] =
                             [BuiltBy("Lazy.__iter__") EXCEPT !.n = op[t].l]]
       ELSE UNCHANGED <<heap, built>>
    /\ UNCHANGED <<hist, advances, optionVars, lazyVars, ghostVars, stack, ops>>

\* A client calls l.is_computed().
IsComputedOp(t, l) ==
    /\ CanStart(t)
    /\ l \in Constructed
    /\ ops' = ops + 1
    /\ result' = Result(t, "is_computed", l, BoolV(IsComputed(l)))
    /\ UNCHANGED <<cursorVars, optionVars, lazyVars, ghostVars, stack, ret, op>>

\* Lazy.__init__: a new Lazy n holding a supplier, no value, a free lock.
New(n, k, s) ==
    /\ n \in Lazies
    /\ kind' = [kind EXCEPT ![n] = k]
    /\ src' = [src EXCEPT ![n] = s]
    /\ supplier' = [supplier EXCEPT ![n] = "fn"]
    /\ value' = [value EXCEPT ![n] = NoneV]
    /\ lock' = [lock EXCEPT ![n] = 0]

\* A client calls Lazy.of(thunk).
OfOp(t) ==
    /\ op[t] = Idle
    /\ New(NextId, "thunk", << >>)
    /\ result' = Result(t, "of", NextId, Void)
    /\ UNCHANGED <<cursorVars, optionVars, ghostVars, stack, ret, op, ops>>

\* A client calls Lazy.of(lambda: None).
\* l = Lazy.of(lambda: f(l.get())): the computation gets the Lazy it
\* belongs to.
OfSelfOp(t) ==
    /\ op[t] = Idle
    /\ New(NextId, "self", <<NextId>>)
    /\ result' = Result(t, "of", NextId, Void)
    /\ UNCHANGED <<cursorVars, optionVars, ghostVars, stack, ret, op, ops>>

\* l = Lazy.of(lambda: f(m.get())); m = l.map(f): the computation of l gets
\* the Lazy mapped from l, whose computation gets l.
OfKnotOp(t) ==
    /\ op[t] = Idle
    /\ NextId + 1 \in Lazies
    /\ kind' = [kind EXCEPT ![NextId] = "self", ![NextId + 1] = "map"]
    /\ src' = [src EXCEPT ![NextId] = <<NextId + 1>>, ![NextId + 1] = <<NextId>>]
    /\ supplier' = [supplier EXCEPT ![NextId] = "fn", ![NextId + 1] = "fn"]
    /\ value' = [value EXCEPT ![NextId] = NoneV, ![NextId + 1] = NoneV]
    /\ lock' = [lock EXCEPT ![NextId] = 0, ![NextId + 1] = 0]
    /\ result' = Result(t, "map", NextId + 1, Void)
    /\ UNCHANGED <<cursorVars, optionVars, ghostVars, stack, ret, op, ops>>

OfNoneOp(t) ==
    /\ op[t] = Idle
    /\ New(NextId, "none_thunk", << >>)
    /\ result' = Result(t, "of", NextId, Void)
    /\ UNCHANGED <<cursorVars, optionVars, ghostVars, stack, ret, op, ops>>

\* Lazy.of handed a Lazy: a second Lazy whose supplier is the first.
OfLazyWrapping(t, l) ==
    /\ op[t] = Idle
    /\ l \in Constructed
    /\ New(NextId, "map", <<l>>)
    /\ result' = [Result(t, "of", NextId, Void) EXCEPT !.l2 = l]
    /\ UNCHANGED <<cursorVars, optionVars, ghostVars, stack, ret, op, ops>>

\* A client calls Lazy.of(l) for a Lazy l: isinstance(supplier, Lazy), so
\* the argument is what comes back.
OfLazyOp(t, l) ==
    /\ op[t] = Idle
    /\ l \in Constructed
    /\ result' = [Result(t, "of", l, Void) EXCEPT !.l2 = l]
    /\ UNCHANGED <<cursorVars, optionVars, lazyVars, ghostVars, stack, ret, op, ops>>

\* A client calls l.map(f): Lazy.of(lambda: f(self.get())).
MapOp(t, l) ==
    /\ op[t] = Idle
    /\ l \in Constructed
    /\ kind[l] \in {"thunk", "map"}
    /\ New(NextId, "map", <<l>>)
    /\ result' = Result(t, "map", NextId, Void)
    /\ UNCHANGED <<cursorVars, optionVars, ghostVars, stack, ret, op, ops>>

\* The lists of at most n constructed Lazy objects whose values are numbers.
RECURSIVE Lists(_)
Lists(n) ==
    IF n = 0 THEN {<< >>}
    ELSE Lists(n - 1) \cup
         {Append(s, l) : s \in {x \in Lists(n - 1) : Len(x) = n - 1},
                         l \in {c \in Constructed : kind[c] \in {"thunk", "map"}}}

\* A client calls Lazy.sequence(lazies).
SequenceOp(t, ls) ==
    /\ op[t] = Idle
    /\ New(NextId, "seq", ls)
    /\ result' = Result(t, "sequence", NextId, Void)
    /\ UNCHANGED <<cursorVars, optionVars, ghostVars, stack, ret, op, ops>>

\* ---------------------------------------------------------------- cursor calls
callVars == <<lazyVars, ghostVars, stack, ret, op, ops, result>>

\* The Iterator objects the client holds a reference to.
ClientBuilt == {c \in Cursors : built[c].fn \notin {"none", "internal"}}

\* The client may construct one more, and k Iterator objects fit.
CanBuild(k) == Cardinality(ClientBuilt) < MaxBuilds /\ Cardinality(Free) >= k

\* The sequences over S of length n at most.
RECURSIVE SeqsUpTo(_, _)
SeqsUpTo(S, n) ==
    IF n = 0 THEN {<< >>}
    ELSE SeqsUpTo(S, n - 1) \cup
         {Append(q, x) : q \in {y \in SeqsUpTo(S, n - 1) : Len(y) = n - 1}, x \in S}

\* What clients hand to the constructors: elements (0 for None), lists,
\* lists or Iterator objects as sources, values and thunks, suppliers.
ElemNums == 0..MaxVal
Iterables == {ListV(xs) : xs \in {<< >>, <<1>>, <<2, 1>>, <<0>>}}
Sources ==
    Iterables \cup {CursorRef(c) : c \in {d \in ClientBuilt :
                                              heap[d].variant # "iterator._SingleIterator"}}
Repeated == {IntV(1), Lambda(IntV(1))}
Suppliers == {Lambda(NoneV), Lambda(IntV(1)),
              BoundNext(ListIter(<<1, 0, 2>>)), BoundNext(ListIter(<<2>>))}
Seeds == {IntV(0), IntV(1)}
Raisers == {Raises(ExcV(1)), Raises(StopIteration)}
Continued == Repeated \cup {BoundNext(ListIter(<<1, 2, 1, 2, 1, 2, 1, 2>>))}

\* The new Iterator object c, constructed by the call b.
Build(c, obj, b) ==
    /\ heap' = [heap EXCEPT ![c] = obj]
    /\ built' = [built EXCEPT ![c] = b]
    /\ UNCHANGED <<hist, advances, callVars, optionVars>>

\* A constructor raises e and returns nothing.
Fails(fn, e) ==
    /\ result' = Result(1, fn, 0, e)
    /\ UNCHANGED <<cursorVars, optionVars, lazyVars, ghostVars, stack, ret, op, ops>>

\* Lazy.of(None): the assert fails.
OfNullOp == Fails("Lazy.of", AssertionError)

\* Iterator.empty()
EmptyOp ==
    /\ CanBuild(1)
    /\ Build(NewCursor, EmptyIterator, BuiltBy("empty"))

\* Iterator.of(first, *others) of the collection package: a
\* _SingleIterator, or the concatenation of Iterator.of(first) and
\* iter(others).
IterOfOp(es) ==
    /\ es # << >>
    /\ IF Len(es) = 1
       THEN /\ CanBuild(1)
            /\ Build(NewCursor, SingleIterator(Elem(es[1])), [BuiltBy("of") EXCEPT !.xs = es])
       ELSE /\ CanBuild(2)
            /\ LET c1 == NewCursor
                   c2 == CHOOSE c \in Free \ {c1} : \A d \in Free \ {c1} : c <= d
               IN /\ heap' = [heap EXCEPT
                        ![c1] = SingleIterator(Elem(es[1])),
                        ![c2] = ConcatIterator(<<CursorRef(c1), ListIter(Tail(es))>>)]
                  /\ built' = [built EXCEPT ![c1] = BuiltBy("internal"),
                                            ![c2] = [BuiltBy("of") EXCEPT !.xs = es]]
                  /\ UNCHANGED <<hist, advances, callVars, optionVars>>

\* Iterator.of(element) of koftipy/iterator.py
FlatOfOp(e) ==
    /\ CanBuild(1)
    /\ Build(NewCursor, FlatSingleIterator(Elem(e)), [BuiltBy("iterator.of") EXCEPT !.xs = <<e>>])

\* Iterator.from_iterable(iterable)
FromIterableOp(iterable) ==
    IF iterable = NoneV THEN Fails("from_iterable", AssertionError)
    ELSE /\ CanBuild(1)
         /\ Build(NewCursor, PyIterator(Iter(iterable)),
                  [BuiltBy("from_iterable") EXCEPT !.args = <<iterable>>])

\* Iterator.concat(*iterators): Iterator.empty() when there are none;
\* _ConcatIterator.__init__ opens the first source, and iter(None) raises.
ConcatOp(srcs) ==
    IF srcs # << >> /\ Head(srcs) = NoneV THEN Fails("concat", TypeError)
    ELSE /\ CanBuild(1)
         /\ Build(NewCursor,
                  IF srcs = << >> THEN EmptyIterator ELSE ConcatIterator(srcs),
                  [BuiltBy("concat") EXCEPT !.args = srcs])

\* The client calls the constructor that made d again, with the same
\* arguments: from_iterable(s) or concat(s, ...) over the same objects.
SiblingOp(d) ==
    /\ d \in ClientBuilt
    /\ built[d].fn \in {"from_iterable", "concat"}
    /\ built[d].args # << >>
    /\ Cardinality(ClientBuilt) <= MaxBuilds /\ Cardinality(Free) >= 1
    /\ Build(NewCursor,
             IF built[d].fn = "from_iterable" THEN PyIterator(Iter(built[d].args[1]))
             ELSE ConcatIterator(built[d].args),
             built[d])

\* Iterator.repeatedly(value, n)
RepeatedlyOp(v, n) ==
    /\ CanBuild(1)
    /\ Build(NewCursor, RepetitiveIterator(v, n), [BuiltBy("repeatedly") EXCEPT !.v = v, !.n = n])

\* Iterator.continually(value)
ContinuallyOp(v) ==
    /\ CanBuild(1)
    /\ Build(NewCursor, InfiniteIterator(v), [BuiltBy("continually") EXCEPT !.v = v])

\* Iterator.iterate_until_none(supplier)
IterateUntilNoneOp(sup) ==
    /\ CanBuild(1)
    /\ Build(NewCursor, UntilNoneIterator(sup), [BuiltBy("iterate_until_none") EXCEPT !.v = sup])

\* Iterator.produce(seed, lambda x: x + 1)
ProduceOp(seed) ==
    /\ CanBuild(1)
    /\ Build(NewCursor, ProducerIterator(seed), [BuiltBy("produce") EXCEPT !.v = seed])

\* Iterator.produce(seed, f) for a function f that raises.
ProduceWithOp(seed, f) ==
    /\ CanBuild(1)
    /\ Build(NewCursor, ProducerIteratorWith(seed, f),
             [BuiltBy("produce") EXCEPT !.v = seed, !.args = <<f>>])

\* The client calls next(c).
NextOp(c) ==
    /\ c \in ClientBuilt
    /\ advances < MaxAdvances
    /\ LET r == Advance(heap, c)
       IN /\ heap' = r.h
          /\ hist' = [hist EXCEPT ![c] = Append(@, r.out)]
    /\ advances' = advances + 1
    /\ UNCHANGED <<built, callVars, optionVars>>

\* ---------------------------------------------------------------- option calls
\* The values clients put into options, and the options they hold.
Payloads == {NoneV, IntV(0), IntV(1), BoolV(FALSE), EmptyStr, ListV(<< >>)}
Thunks == {Lambda(IntV(1)), Lambda(NoneV)}
Options == {NothingV} \cup {SomeObj(i) : i \in DOMAIN somes}

\* A call c on Option returns: r is the outcome, with the Some objects
\* there are afterwards.
OptionCall(c, r) ==
    /\ Len(r.s) <= MaxSomes
    /\ somes' = r.s
    /\ called' = [c EXCEPT !.out = r.out]
    /\ UNCHANGED <<preds, cursorVars, callVars>>

OptionOfOp(v) == OptionCall([NoCall EXCEPT !.fn = "of", !.a = v], OptionOf(somes, v))

OfTruthyOp(v) == OptionCall([NoCall EXCEPT !.fn = "of_truthy", !.a = v], OfTruthy(somes, v))

SomeOp(v) == OptionCall([NoCall EXCEPT !.fn = "some", !.a = v], MakeSome(somes, v))

NothingOp == OptionCall([NoCall EXCEPT !.fn = "nothing"], OptionNothing(somes))

WhenOp(cond, v) ==
    OptionCall([NoCall EXCEPT !.fn = "when", !.a = BoolV(cond), !.b = v],
               OptionWhen(somes, cond, v))

OptionGetOp(o) ==
    OptionCall([NoCall EXCEPT !.fn = "get", !.a = o], [s |-> somes, out |-> Get(somes, o)])

OptionMapOp(o, fn) ==
    OptionCall([NoCall EXCEPT !.fn = "map", !.a = o, !.p = Function(fn)],
               OptionMap(somes, o, fn))

FlatMapOp(o, fn) ==
    OptionCall([NoCall EXCEPT !.fn = "flat_map", !.a = o, !.p = Function(fn)],
               FlatMap(somes, o, fn))

OptionFilterOp(o, p) ==
    OptionCall([NoCall EXCEPT !.fn = "filter", !.a = o, !.p = p], OptionFilter(somes, o, p))

FlattenOp(o) ==
    OptionCall([NoCall EXCEPT !.fn = "flatten", !.a = o],
               [s |-> somes, out |-> Flatten(somes, o)])

OptionEqOp(a, b) ==
    OptionCall([NoCall EXCEPT !.fn = "eq", !.a = a, !.b = b],
               [s |-> somes, out |-> BoolV(PyEq(somes, a, b))])

\* Option.sequence of a list of options whose values are numbers or None.
OptionSequenceOp(os) ==
    /\ \A i \in DOMAIN os : os[i].k = "Some" => Get(somes, os[i]) \in {NoneV, IntV(1)}
    /\ OptionCall([NoCall EXCEPT !.fn = "sequence", !.os = os], OptionSequence(somes, os))

\* ---------------------------------------------------------------- predicate calls
\* The functions clients make predicates of: x == 1, x > 1, and
\* lambda x: x, whose result is no bool; the values they test.
LeafFns == {"eq1", "gt1", "id"}
Tested == {IntV(0), IntV(1), IntV(2)}

\* A constructor of Predicate returns the new object t: no test() runs.
MakePredicate(fn, t) ==
    /\ Len(preds) < MaxPreds
    /\ preds' = Append(preds, t)
    /\ called' = [NoCall EXCEPT !.fn = fn, !.tree = t]
    /\ UNCHANGED <<somes, cursorVars, callVars>>

\* Predicate.of(function)
PredicateOfOp(fn) == MakePredicate("Predicate.of", Leaf(PredicateOf(Function(fn))))

AllOfOp(i, j) == MakePredicate("all_of", AllOf(preds[i], <<preds[j]>>))

AnyOfOp(i, j) == MakePredicate("any_of", AnyOf(preds[i], <<preds[j]>>))

NoneOfOp(i, j) == MakePredicate("none_of", NoneOf(preds[i], <<preds[j]>>))

NotOp(i) == MakePredicate("not_", Not(preds[i]))

\* The client calls preds[i].test(x).
TestOp(i, x) ==
    /\ LET r == TestTree(preds[i], x)
       IN called' = [NoCall EXCEPT !.fn = "test", !.tree = preds[i], !.a = x,
                                   !.out = r.out, !.log = r.log]
    /\ UNCHANGED <<somes, preds, cursorVars, callVars>>

\* The steps of a call of get() in progress.
GetStep(t) ==
    \/ GetCheck(t)
    \/ GetFast(t)
    \/ CvRead(t)
    \/ CvLock(t)
    \/ CallThunk(t)
    \/ CallThunkRaise(t)
    \/ CvStore(t)
    \/ CvClear(t)
    \/ CvRet(t)
    \/ Propagate(t)
    \/ Complete(t)

\* The steps of a get() of a mapped Lazy.
MapStep(t) ==
    \/ CallMap(t)
    \/ MapApply(t)

\* The steps of a get() of a Lazy.sequence.
SeqStep(t) ==
    \/ CallSeq(t)
    \/ SeqNext(t)
    \/ SeqCollect(t)

\* The calls of a client that get a Lazy's value, or look at it.
GetOp(t) ==
    \/ \E l \in Lazies : StartGet(t, l)
    \/ \E l \in Lazies : IsComputedOp(t, l)

\* The calls of a client that force a Lazy on the way to something else.
ForceOp(t) ==
    \/ \E l \in Lazies, p \in Preds : StartFilter(t, l, p)
    \/ \E l \in Lazies : StartIter(t, l)
    \/ \E l \in Lazies, o \in Lazies : StartEq(t, l, o)
    \/ \E l \in Lazies, o \in {0} \cup Lazies : EqOp(t, l, o)

\* Threads sharing one Lazy and the Lazy mapped from it.
Next ==
    \E t \in Threads :
        \/ GetOp(t)
        \/ GetStep(t)
        \/ MapStep(t)
        \/ NextId <= MaxShared /\ MapOp(t, 1)

Spec == Init /\ [][Next]_vars

\* Threads that call get() on one Lazy, or on a Lazy and the Lazy mapped
\* from it (then MaxFairOps calls), under a fair scheduler: a thread that
\* can take a step of its get() is not left waiting for ever. The interpreter switches threads
\* every few bytecodes and a released lock wakes a waiting thread, and here
\* the number of calls is finite, so that a thread at the lock finds it free
\* from some time on.
NextFair ==
    \E t \in Threads :
        \/ \E l \in Lazies : (NextId = 2 \/ ops < MaxFairOps) /\ StartGet(t, l)
        \/ GetStep(t)
        \/ MapStep(t)
        \/ ops = 0 /\ NextId <= MaxShared /\ MapOp(t, 1)

SpecFair ==
    /\ Init
    /\ [][NextFair]_vars
    /\ \A t \in Threads : WF_vars(GetStep(t) \/ MapStep(t))

\* The Lazy objects whose computation leads back to a get() of themselves:
\* those of OfSelfOp and both of OfKnotOp.
RECURSIVE Leads(_, _, _)
Leads(l, m, k) ==
    /\ k > 0
    /\ kind[l] \in {"self", "map"}
    /\ src[l][1] = m \/ Leads(src[l][1], m, k - 1)
SelfRef == {l \in Constructed : Leads(l, l, MaxLazies)}

\* Threads that call get() on Lazy objects whose computation gets the Lazy
\* itself, directly or through the Lazy mapped from it, and on the Lazy of
\* Init and the Lazy mapped from that (these by the first thread only), all
\* constructed by the first thread before the calls begin.
NextKnot ==
    \E t \in Threads :
        \/ ops = 0 /\ t = 1 /\ OfSelfOp(t)
        \/ ops = 0 /\ t = 1 /\ OfKnotOp(t)
        \/ ops = 0 /\ t = 1 /\ MapOp(t, 1)
        \/ \E l \in Lazies : (t = 1 \/ l \in SelfRef) /\ StartGet(t, l)
        \/ GetStep(t)
        \/ MapStep(t)
        \/ CallSelf(t)

SpecKnot == Init /\ [][NextKnot]_vars

\* One client thread that constructs Lazy objects and gets their values.
NextSeq ==
    \/ GetOp(1)
    \/ GetStep(1)
    \/ MapStep(1)
    \/ SeqStep(1)
    \/ OfOp(1)
    \/ \E l \in Lazies : MapOp(1, l)
    \/ \E ls \in Lists(MaxSeqLen) : SequenceOp(1, ls)

SpecSeq == Init /\ [][NextSeq]_vars

\* Threads that get, filter, iterate, compare and map two shared Lazy objects.
NextOps ==
    \E t \in Threads :
        \/ ops < MaxForceOps /\ ForceOp(t)
        \/ ops < MaxForceOps /\ GetOp(t)
        \/ EqSecond(t)
        \/ GetStep(t)
        \/ MapStep(t)
        \/ NextId <= MaxShared /\ MapOp(t, 1)

SpecOps == Init /\ [][NextOps]_vars

\* One client that constructs Lazy objects and filters, compares and
\* iterates them.
NextCalls ==
    \/ ops < MaxForceOps /\ GetOp(1)
    \/ GetStep(1)
    \/ MapStep(1)
    \/ CallThunkNone(1)
    \/ EqSecond(1)
    \/ OfNoneOp(1)
    \/ \E l \in Lazies : OfLazyOp(1, l)
    \/ MapOp(1, 1)
    \/ \E l \in Lazies, p \in AllPreds : ops < MaxForceOps /\ StartFilter(1, l, p)
    \/ \E l \in Lazies, p \in AllPreds : ops < MaxForceOps /\ StartFilterNot(1, l, p)
    \/ \E l \in Lazies : ops < MaxForceOps /\ StartIter(1, l)
    \/ \E l \in Lazies : ops < MaxForceOps /\ StartIterControl(1, l)
    \/ \E l \in Lazies, o \in Lazies : ops < MaxForceOps /\ StartEq(1, l, o)
    \/ \E l \in Lazies, o \in {0} \cup Lazies : ops < MaxForceOps /\ EqOp(1, l, o)
    \/ \E c \in Cursors : NextOp(c)

SpecCalls == Init /\ [][NextCalls]_vars

\* One client that constructs Iterator objects and advances them.
NextIter ==
    \/ EmptyOp
    \/ \E es \in SeqsUpTo(ElemNums, MaxSeqLen) : IterOfOp(es)
    \/ \E e \in ElemNums : FlatOfOp(e)
    \/ \E iterable \in Sources : FromIterableOp(iterable)
    \/ \E srcs \in SeqsUpTo(Sources, MaxSeqLen) : ConcatOp(srcs)
    \/ \E v \in Repeated, n \in -1..MaxCount : RepeatedlyOp(v, n)
    \/ \E v \in Continued : ContinuallyOp(v)
    \/ \E sup \in Suppliers : IterateUntilNoneOp(sup)
    \/ \E seed \in Seeds : ProduceOp(seed)
    \/ \E c \in Cursors : NextOp(c)

SpecIter == Init /\ [][NextIter]_vars

\* One client that constructs cursors over lists and over other cursors,
\* the same source more than once, and advances them.
NextShare ==
    \/ \E es \in SeqsUpTo(ElemNums, MaxSeqLen) : IterOfOp(es)
    \/ \E iterable \in Sources : FromIterableOp(iterable)
    \/ \E srcs \in SeqsUpTo(Sources, MaxSeqLen) : ConcatOp(srcs)
    \/ \E d \in Cursors : SiblingOp(d)
    \/ \E c \in Cursors : NextOp(c)

SpecShare == Init /\ [][NextShare]_vars

\* One client whose thunks, suppliers and functions raise, at the first
\* call or after some values, and that concatenates and wraps the cursors
\* made from them.
NextRaise ==
    \/ \E iterable \in Sources : FromIterableOp(iterable)
    \/ \E srcs \in SeqsUpTo(Sources, MaxSeqLen) : ConcatOp(srcs)
    \/ \E v \in Raisers : RepeatedlyOp(v, MaxCount)
    \/ \E v \in Raisers : ContinuallyOp(v)
    \/ \E sup \in Raisers \cup Suppliers : IterateUntilNoneOp(sup)
    \/ \E seed \in Seeds, f \in Raisers : ProduceWithOp(seed, f)
    \/ \E c \in Cursors : NextOp(c)

SpecRaise == Init /\ [][NextRaise]_vars

\* The functions handed to produce: such that return, that raise from some
\* value on, and that always raise.
Steps == {SuccFn, SuccBelow(1)} \cup Raisers

\* One client whose step functions and repeated thunks return or raise.
NextStep ==
    \/ \E seed \in Seeds, f \in Steps : ProduceWithOp(seed, f)
    \/ \E v \in Repeated \cup Raisers, n \in -1..MaxCount : RepeatedlyOp(v, n)
    \/ \E c \in Cursors : NextOp(c)

SpecStep == Init /\ [][NextStep]_vars

\* One client that hands None, among others, to the constructors.
NextNone ==
    \/ OfNullOp
    \/ \E iterable \in Sources \cup {NoneV} : FromIterableOp(iterable)
    \/ \E srcs \in SeqsUpTo(Sources \cup {NoneV}, MaxSeqLen) : ConcatOp(srcs)
    \/ \E sup \in Suppliers \cup {NoneV} : IterateUntilNoneOp(sup)
    \/ \E c \in Cursors : NextOp(c)

SpecNone == Init /\ [][NextNone]_vars

\* One client that makes options and calls their methods.
NextOption ==
    \/ \E v \in Payloads \cup Options : OptionOfOp(v)
    \/ \E v \in Payloads \cup Thunks : OfTruthyOp(v)
    \/ \E v \in Payloads \cup Options : SomeOp(v)
    \/ NothingOp
    \/ \E cond \in BOOLEAN, v \in Payloads \cup Thunks : WhenOp(cond, v)
    \/ \E o \in Options : OptionGetOp(o)
    \/ \E o \in Options, fn \in {"id", "is_none"} : OptionMapOp(o, fn)
    \/ \E o \in Options, fn \in {"some", "nothing"} : FlatMapOp(o, fn)
    \/ \E o \in Options, p \in {Function("is_none"), Function("id")} : OptionFilterOp(o, p)
    \/ \E o \in Options : FlattenOp(o)
    \/ \E a, b \in Options : OptionEqOp(a, b)
    \/ \E os \in SeqsUpTo(Options, MaxSeqLen) : OptionSequenceOp(os)

SpecOption == Init /\ [][NextOption]_vars

\* One client that makes predicates, combines them and tests values.
NextPredicate ==
    \/ \E fn \in LeafFns : PredicateOfOp(fn)
    \/ \E i, j \in DOMAIN preds : AllOfOp(i, j)
    \/ \E i, j \in DOMAIN preds : AnyOfOp(i, j)
    \/ \E i, j \in DOMAIN preds : NoneOfOp(i, j)
    \/ \E i \in DOMAIN preds : NotOp(i)
    \/ \E i \in DOMAIN preds, x \in Tested : TestOp(i, x)

SpecPredicate == Init /\ [][NextPredicate]_vars

\* ---------------------------------------------------------------- claims

\* The computation of l has never raised.
Succeeds(l) == fails[l] = 0

\* C1: under every interleaving of concurrent get() calls on a Lazy whose
\* computation succeeds, the computation is invoked at most once in total
\* (the side-effect counter never passes 1).
C1_ComputedOnce == \A l \in Constructed : Succeeds(l) => calls[l] <= 1

\* C2: all concurrent get() calls on a Lazy whose computation succeeds
\* return the identical value.
C2_SameValue == \A l \in Constructed : Succeeds(l) => Cardinality(returned[l]) <= 1

\* C3: once a Lazy is computed, no step writes its cached value again.
C3_ValueImmutable ==
    [][\A l \in Constructed : IsComputed(l) => value'[l] = value[l]]_vars

\* C4: when the computation of a Lazy raises during get(), the lock is
\* released and the Lazy stays uncomputed: the computation reference is
\* still set and the cached slot is unchanged, so no failure is cached.
C4_FailureLeavesUncomputed ==
    [][\A t \in Threads :
          Propagate(t) =>
              /\ lock'[Top(t).l] = 0
              /\ supplier'[Top(t).l] # "None"
              /\ value'[Top(t).l] = value[Top(t).l]]_vars

\* C5: when a computation of l fails while other threads are blocked
\* waiting for the lock of l, each blocked thread will invoke the
\* computation itself once it gets the lock (the test it makes under the
\* lock, of the local it already read, lets it through).
C5_BlockedRetry ==
    [][\A t, u \in Threads :
          (/\ Propagate(t)
           /\ u # t
           /\ InFrame(u, "cv_lock")
           /\ Top(u).l = Top(t).l)
          => ComputeGuard(Top(u).sup, Top(u).l)]_vars

\* C6: in one thread, any number of get() calls on a Lazy invoke its
\* computation once (once more for every failure before the success, never
\* after it) and return one value; the Lazy is uncomputed before the first
\* get() and computed after a get() has returned.
C6_MemoizedOnce ==
    \A l \in Constructed :
        /\ calls[l] <= fails[l] + 1
        /\ IsComputed(l) => calls[l] = fails[l] + 1
        /\ Cardinality(returned[l]) <= 1
        /\ calls[l] = 0 => ~IsComputed(l)
        /\ returned[l] # {} => IsComputed(l)

\* A second get() returns the cached value on the fast path.
C6_Witness ==
    \E l \in Constructed :
        /\ InFrame(1, "fast") /\ Top(1).l = l
        /\ returned[l] # {} /\ calls[l] = 1

\* C7: whenever the computation reference is seen cleared, the cached slot
\* holds a computed value, and no get() returns the placeholder the slot
\* was constructed with.
C7_NoPartialResult ==
    \A l \in Constructed :
        /\ IsComputed(l) => value[l].k = "int"
        /\ \A v \in returned[l] : v.k = "int"

\* A get() is on the lock-free path while the computing thread is still
\* inside the lock.
C7_Witness ==
    \E t, u \in Threads :
        /\ t # u
        /\ InFrame(t, "fast") /\ InFrame(u, "cv_ret")
        /\ Top(t).l = Top(u).l /\ lock[Top(u).l] = u

\* C8: is_computed() answers whether the computation reference is cleared;
\* no step of any get(), map(), filter(), == or iter() call sets a cleared
\* reference again, so a Lazy that is_computed() has reported computed is
\* computed from then on.
C8_ComputedForever ==
    [][/\ \A l \in Constructed : IsComputed(l) => IsComputed(l)'
       /\ (result.kind = "is_computed" /\ result.val = BoolV(TRUE)
              => IsComputed(result.l))']_vars

\* The computation of an already computed Lazy is running again, on behalf
\* of a filter(), == or iter() call.
C8_Witness ==
    \E t \in Threads :
        /\ InFrame(t, "cv_call") /\ IsComputed(Top(t).l)
        /\ op[t].kind \in {"filter", "eq", "iter"}

\* No get() has been called yet, whatever has been constructed.
NothingForced ==
    \A l \in Constructed : ~IsComputed(l) /\ calls[l] = 0 /\ applied[l] = 0

\* C9: map() computes nothing; a get() of the mapped Lazy forces the source,
\* applies f once to the source's value and caches f of it.
C9_MapIsLazy ==
    /\ ops = 0 => NothingForced
    /\ \A m \in Constructed :
          kind[m] = "map" =>
              /\ applied[m] <= 1
              /\ calls[m] = 0 => ~IsComputed(m)
              /\ IsComputed(m) =>
                    /\ IsComputed(src[m][1])
                    /\ applied[m] = 1
                    /\ value[m] = F(value[src[m][1]])
              /\ returned[m] \subseteq {F(value[src[m][1]])}

\* A get() of a map of a map has returned.
C9_Witness ==
    \E m \in Constructed :
        /\ kind[m] = "map" /\ kind[src[m][1]] = "map"
        /\ returned[m] # {}

\* C10: Lazy.sequence() computes nothing; when the outer Lazy is forced
\* every inner Lazy is forced, and the outer value is the list of the inner
\* values in the order of the input.
C10_SequenceIsLazy ==
    /\ ops = 0 => NothingForced
    /\ \A s \in Constructed :
          kind[s] = "seq" =>
              /\ calls[s] = 0 => ~IsComputed(s)
              /\ IsComputed(s) =>
                    /\ \A i \in 1..Len(src[s]) : IsComputed(src[s][i])
                    /\ value[s] = ListV([i \in 1..Len(src[s]) |-> value[src[s][i]].n])

\* A sequence of two Lazy objects with different values has been forced.
C10_Witness ==
    \E s \in Constructed :
        /\ kind[s] = "seq" /\ Len(src[s]) = 2
        /\ IsComputed(s)
        /\ value[s].xs[1] # value[s].xs[2]

\* p(x) holds: the function of p gives a true value, under an even number
\* of negations.
Holds(p, x) == (p.negs % 2 = 1) # Truthy(CallFn(p.fn, x))

\* The call that has just returned normally is one of these kinds.
Returned(kinds) ==
    result' # result /\ result'.kind \in kinds /\ result'.val.k # "exc"

C12_OfLazyIsIdentity ==
    [][(result' # result /\ result'.kind = "of" /\ result'.l2 # 0) =>
          /\ result'.l = result'.l2
          /\ UNCHANGED <<lazyVars, ghostVars>>]_vars

\* Lazy.of has been handed a computed Lazy and an uncomputed one exists.
C12_Witness ==
    /\ result.kind = "of" /\ result.l2 # 0
    /\ IsComputed(result.l)
    /\ \E l \in Constructed : ~IsComputed(l)

C14_LazyIterIsSingle ==
    \A c \in Cursors :
        built[c].fn = "Lazy.__iter__" =>
            /\ IsComputed(built[c].n)
            /\ \A i \in DOMAIN hist[c] :
                   hist[c][i] = IF i = 1 THEN value[built[c].n] ELSE StopIteration

\* ---------------------------------------------------------------- cursor claims
\* The elements of a list, as values.
ElemsOf(xs) == [i \in 1..Len(xs) |-> Elem(xs[i])]

\* The elements of a list that come before its first None.
RECURSIVE UntilNone(_)
UntilNone(xs) ==
    IF xs = << >> \/ Head(xs) = 0 THEN << >>
    ELSE <<Elem(Head(xs))>> \o UntilNone(Tail(xs))

\* The i-th output of a supplier.
Output(sup, i) ==
    IF sup.k = "__next__"
    THEN IF i <= Len(sup.xs) THEN Elem(sup.xs[i]) ELSE StopIteration
    ELSE IF sup.k = "lambda:int" THEN IntV(sup.n) ELSE NoneV

\* No other Iterator object was constructed over c: every advance of c is
\* one the client made.
Unshared(c) == \A e \in Cursors : CursorRef(c) \notin {built[e].args[i] : i \in DOMAIN built[e].args}

\* The call that constructed c promises finitely many elements.
RECURSIVE Finite(_)
Finite(c) ==
    LET b == built[c]
    IN /\ b.fn \in {"empty", "of", "from_iterable", "concat", "repeatedly", "iterate_until_none"}
       /\ b.fn = "iterate_until_none" => b.v # Lambda(IntV(1))
       /\ \A i \in DOMAIN b.args : b.args[i].k = "Iterator" => Finite(b.args[i].n)

\* The elements the call that constructed c promises, in order, for a
\* finite c whose sources were new when it was constructed.
RECURSIVE Content(_)
SourceContent(v) == IF v.k = "list" THEN ElemsOf(v.xs) ELSE Content(v.n)
RECURSIVE Joined(_)
Joined(args) == IF args = << >> THEN << >> ELSE SourceContent(Head(args)) \o Joined(Tail(args))
Content(c) ==
    LET b == built[c]
    IN CASE b.fn = "of" -> ElemsOf(b.xs)
         [] b.fn \in {"from_iterable", "concat"} -> Joined(b.args)
         [] b.fn = "repeatedly" -> [i \in 1..b.n |-> IntV(1)]
         [] b.fn = "iterate_until_none" -> UntilNone(b.v.xs)
         [] OTHER -> << >>

\* hist[c] is the sequence S followed by nothing but StopIteration.
YieldsThenStops(c, S) ==
    \A i \in DOMAIN hist[c] : hist[c][i] = IF i <= Len(S) THEN S[i] ELSE StopIteration

\* C15: once next(c) has raised StopIteration, every later next(c) raises
\* StopIteration, for the cursors made by empty, of, concat, repeatedly,
\* iterate_until_none and from_iterable.
C15_ExhaustionIsTerminal ==
    \A c \in Cursors :
        built[c].fn \in {"empty", "of", "concat", "repeatedly",
                         "iterate_until_none", "from_iterable"} =>
            \A i, j \in DOMAIN hist[c] :
                (i < j /\ hist[c][i] = StopIteration) => hist[c][j] = StopIteration

\* The sources of the concatenation c are lists, or finite cursors that
\* are given once, to c only, and that the client does not advance itself.
OwnsSources(c) ==
    \A i \in DOMAIN built[c].args :
        LET a == built[c].args[i]
        IN a.k = "Iterator" =>
              /\ Finite(a.n) /\ hist[a.n] = << >>
              /\ \A j \in DOMAIN built[c].args : j # i => built[c].args[j] # a
              /\ \A e \in Cursors \ {c} :
                     a \notin {built[e].args[j] : j \in DOMAIN built[e].args}
              /\ \A j \in DOMAIN built[a.n].args : built[a.n].args[j].k # "Iterator"

\* The sources of c that come before the one c is drawing from.
Drained(c) == SubSeq(built[c].args, 1, Len(built[c].args) - Len(heap[c].iterators) - 1)

C17_RepeatedlyCounts ==
    \A c \in Cursors :
        (built[c].fn = "repeatedly" /\ Unshared(c)) =>
            /\ YieldsThenStops(c, [i \in 1..built[c].n |-> IntV(1)])
            /\ heap[c].invoked = IF Len(hist[c]) <= built[c].n THEN Len(hist[c])
                                 ELSE IF built[c].n > 0 THEN built[c].n ELSE 0

\* A thunk repeated twice has been called twice, and next() has raised
\* StopIteration twice after that.
C17_Witness ==
    \E c \in Cursors :
        /\ built[c].fn = "repeatedly" /\ Callable(built[c].v) /\ built[c].n = 2
        /\ Len(hist[c]) = 4 /\ heap[c].invoked = 2

\* C18: the k-th next() on Iterator.produce(seed, x -> x + 1) returns
\* seed + k - 1, the seed itself for k = 1, and never raises StopIteration.
C18_ProduceIterates ==
    \A c \in Cursors :
        (built[c].fn = "produce" /\ Unshared(c)) =>
            \A k \in DOMAIN hist[c] : hist[c][k] = IntV(built[c].v.n + k - 1)

\* produce(0, x -> x + 1) has been advanced three times.
C18_Witness ==
    \E c \in Cursors :
        /\ built[c].fn = "produce" /\ built[c].v = IntV(0)
        /\ hist[c] = <<IntV(0), IntV(1), IntV(2)>>

\* C19: every next() on Iterator.iterate_until_none(supplier) calls the
\* supplier once, returns what it returned when that is not None and
\* raises StopIteration when it is None; up to the first StopIteration the
\* cursor has given the outputs of the supplier that come before its
\* first None.
C19_UntilNone ==
    \A c \in Cursors :
        (built[c].fn = "iterate_until_none" /\ Unshared(c)) =>
            /\ heap[c].invoked = Len(hist[c])
            /\ \A i \in DOMAIN hist[c] :
                  /\ hist[c][i] = IF Output(built[c].v, i) = NoneV THEN StopIteration
                                  ELSE Output(built[c].v, i)
                  /\ (hist[c][i] = StopIteration /\ built[c].v.k = "__next__"
                        /\ \A j \in 1..(i - 1) : hist[c][j] # StopIteration)
                     => SubSeq(hist[c], 1, i - 1) = UntilNone(built[c].v.xs)

\* The supplier has been called a third time, after its None.
C19_Witness ==
    \E c \in Cursors :
        /\ built[c].fn = "iterate_until_none"
        /\ built[c].v = BoundNext(ListIter(<<1, 0, 2>>))
        /\ Len(hist[c]) = 3 /\ hist[c][2] = StopIteration

\* C20: next() on Iterator.of(e1, ..., en) gives e1, ..., en in order and
\* raises StopIteration from then on; for n = 1 the first next() sets the
\* consumed flag.
C20_OfYieldsEach ==
    \A c \in Cursors :
        (built[c].fn \in {"of", "iterator.of"} /\ Unshared(c)) =>
            /\ YieldsThenStops(c, ElemsOf(built[c].xs))
            /\ heap[c].variant = "_SingleIterator" => heap[c].consumed = (hist[c] # << >>)

\* C21: every next() on Iterator.continually(v) returns: the constant v
\* when v is not callable, and what one new call of v returns when it
\* is, one call for each next(); StopIteration is never raised.
C21_ContinuallyNeverEnds ==
    \A c \in Cursors :
        (built[c].fn = "continually" /\ Unshared(c)) =>
            /\ heap[c].invoked = Len(hist[c])
            /\ \A i \in DOMAIN hist[c] :
                  /\ hist[c][i] # StopIteration
                  /\ hist[c][i] = IF Callable(built[c].v) THEN Output(built[c].v, i)
                                  ELSE built[c].v

\* A thunk that counts has been called five times.
C21_Witness ==
    \E c \in Cursors :
        /\ built[c].fn = "continually" /\ built[c].v.k = "__next__"
        /\ hist[c] = <<IntV(1), IntV(2), IntV(1), IntV(2), IntV(1)>>
        /\ heap[c].invoked = 5

\* What the next n calls of next(c) would return or raise in the heap h.
RECURSIVE Yields(_, _, _)
Yields(h, c, n) ==
    IF n = 0 THEN << >>
    ELSE LET r == Advance(h, c) IN <<r.out>> \o Yields(r.h, c, n - 1)

\* The sources the cursor c was constructed over.
SourcesOf(c) == {built[c].args[i] : i \in DOMAIN built[c].args}

\* C22: next() on one cursor leaves what every other cursor gives from
\* then on as it was, also for two cursors that from_iterable or concat
\* made from the same source object; stated for two cursors neither of
\* which was constructed over the other.
C22_AdvanceIsLocal ==
    [][\A c, d \in ClientBuilt :
          (c # d /\ hist'[c] # hist[c]
             /\ CursorRef(c) \notin SourcesOf(d) /\ CursorRef(d) \notin SourcesOf(c))
          => Yields(heap', d, MaxLook) = Yields(heap, d, MaxLook)]_vars

\* C23: when a function of the client (thunk, supplier, step function)
\* raises during next(c), also inside a source of a concatenation, that
\* exception is what next(c) raises, and no function of the client is
\* called again in that next(c): nothing is caught, turned into
\* exhaustion or into a skipped source, retried or wrapped.
C23_UserExceptionPropagates ==
    [][\A c \in ClientBuilt :
          hist'[c] # hist[c] =>
              LET r == Advance(heap, c)
              IN r.raised # << >> =>
                    /\ r.raised = <<r.out>>
                    /\ hist'[c] = Append(hist[c], r.raised[1])]_vars

\* C24: Lazy.of(None), from_iterable(None), concat(..., None, ...) and
\* iterate_until_none(None) raise when they are called: no cursor exists
\* that was constructed from a None source, and no next() fails for the
\* lack of one.
C24_NoneFailsAtConstruction ==
    /\ \A c \in Cursors :
          /\ NoneV \notin SourcesOf(c)
          /\ built[c].fn = "iterate_until_none" => built[c].v # NoneV
          /\ \A i \in DOMAIN hist[c] : hist[c][i] # TypeError
    /\ result.kind \in {"Lazy.of", "from_iterable", "concat"} =>
          result.val \in {AssertionError, TypeError}

RECURSIVE Peel(_, _)
Peel(o, n) ==
    IF n = 0 THEN o
    ELSE IF Peel(o, n - 1).k = "Some" THEN somes[Peel(o, n - 1).n] ELSE Void

Absent ==
    \/ called.fn = "of" /\ called.a = NoneV
    \/ called.fn = "of_truthy" /\ ~Truthy(called.a)
    \/ called.fn = "when" /\ called.a = BoolV(FALSE)
    \/ called.fn = "nothing"
    \/ called.fn \in {"map", "flat_map", "filter"} /\ called.a = NothingV
    \/ called.fn = "filter" /\ called.a.k = "Some"
          /\ ~Truthy(Test(PredicateOf(called.p), Get(somes, called.a)))

Passes(t, x) == Truthy(TestTree(t, x).out)

\* C29: for predicates p1, p2 and every x, all_of(p1, p2).test(x) is
\* p1.test(x) and p2.test(x), any_of(p1, p2).test(x) is p1.test(x) or
\* p2.test(x), none_of(p1, p2).test(x) is the negation of that, and
\* not_(all_of(p1, p2)).test(x) is any_of(not_(p1), not_(p2)).test(x).
C29_BooleanAlgebra ==
    called.fn = "test" =>
        LET t == called.tree
            x == called.a
            u == t.kids[1]
        IN /\ t.op = "and" =>
                 Truthy(called.out) = (Passes(t.kids[1], x) /\ Passes(t.kids[2], x))
           /\ t.op = "or" =>
                 Truthy(called.out) = (Passes(t.kids[1], x) \/ Passes(t.kids[2], x))
           /\ (t.op = "not" /\ u.op = "or") =>
                 Truthy(called.out) = ~(Passes(u.kids[1], x) \/ Passes(u.kids[2], x))
           /\ (t.op = "not" /\ u.op = "and") =>
                 called.out = TestTree(AnyOf(Not(u.kids[1]), <<Not(u.kids[2])>>), x).out

\* The first of the predicates ps whose test(x) returns b, the last of
\* them when none does.
FirstAt(ps, x, b) ==
    IF \E i \in DOMAIN ps : TestTree(ps[i], x).out = b
    THEN CHOOSE i \in DOMAIN ps :
             /\ TestTree(ps[i], x).out = b
             /\ \A j \in 1..(i - 1) : TestTree(ps[j], x).out # b
    ELSE Len(ps)

\* The functions that the tests of the first n of ps call, in order.
RECURSIVE LogsTo(_, _, _)
LogsTo(ps, x, n) ==
    IF n = 0 THEN << >>
    ELSE LogsTo(ps, x, n - 1) \o TestTree(ps[n], x).log

Locked == {"cv_call", "map_wait", "seq_next", "seq_wait", "cv_store", "cv_clear", "cv_ret"}
InLock(t, l) == \E i \in DOMAIN stack[t] : stack[t][i].l = l /\ stack[t][i].pc \in Locked

\* C31: for one Lazy, a thread that is calling the computation, writing the
\* cached value or clearing the reference holds the lock of the Lazy, no two
\* threads are there at once, and every step that calls the computation or
\* writes one of the two fields is taken with the lock held before and
\* after it: one hold of the lock covers the three.
C31_ComputationUnderOneLockHold ==
    /\ [](\A l \in Constructed : \A t \in Threads :
            InLock(t, l) => /\ lock[l] = t
                            /\ \A u \in Threads \ {t} : ~InLock(u, l))
    /\ [][\A l \in Constructed :
            (calls'[l] # calls[l] \/ value'[l] # value[l] \/ supplier'[l] # supplier[l])
                => lock[l] # 0 /\ lock'[l] = lock[l] /\ InLock(lock[l], l)]_vars

\* C31 witness: a thread is about to write the value its thunk returned, with
\* the lock held, while another thread waits for the lock of the same Lazy.
C31_Witness ==
    \E t, u \in Threads :
        /\ t # u
        /\ InFrame(t, "cv_store") /\ Top(t).l = 1 /\ lock[1] = t
        /\ InFrame(u, "cv_lock") /\ Top(u).l = 1

\* A thread is inside get(): it has a frame of get() or __compute_value.
InGet(t) == stack[t] # << >>

\* C32: with thunks that return or raise and do not call get() on their own
\* Lazy, under fair scheduling every get() of every thread comes to its end,
\* by a return or by the exception of the thunk, and whenever no thread is
\* inside get() every lock is free.
C32_EveryGetEnds ==
    /\ \A t \in Threads : InGet(t) ~> ~InGet(t)
    /\ []((\A t \in Threads : ~InGet(t)) => \A l \in Lazies : lock[l] = 0)

\* C32 witness: a thread waits for the lock of the Lazy while the thread that
\* holds it has a thunk that raised, the with block not yet left.
C32_Witness ==
    \E t, u \in Threads :
        /\ t # u
        /\ InFrame(u, "cv_lock") /\ Top(u).l = 1
        /\ lock[1] = t /\ ret[t].k = "exc"

\* What one step added to the calls next(self.__current) of c and to the
\* sources c has opened, and the sources c had not yet opened before it.
TriedBy(c) == heap'[c].tried - heap[c].tried
OpenedBy(c) == Len(heap'[c].opened) - Len(heap[c].opened)
Unopened(c) == Len(heap[c].iterators)

Concatenated ==
    {c \in Cursors : heap[c].variant = "_ConcatIterator" /\ built[c].fn = "concat"}
OpenedFrom(cur, s) ==
    IF s.k = "list"
    THEN cur.k = "list_iterator" /\ \E i \in 1..(Len(s.xs) + 1) : cur.xs = SubSeq(s.xs, i, Len(s.xs))
    ELSE cur = s

\* C34: in every state of a concatenated cursor the current sub-cursor, if
\* any, is the one made from the source opened last; the sources opened so
\* far are the first ones of those supplied, in their order, each once; no
\* sub-cursor was advanced after it had raised StopIteration; and once the
\* current sub-cursor is None nothing of the cursor changes any more.
C34_ConcatOpensInOrderOnce ==
    /\ [](\A c \in Concatenated :
            LET self == heap[c]
            IN /\ Len(self.opened) <= Len(built[c].args)
               /\ self.opened = SubSeq(built[c].args, 1, Len(self.opened))
               /\ self.current # NoneV =>
                      /\ self.opened # << >>
                      /\ OpenedFrom(self.current, self.opened[Len(self.opened)])
               /\ self.again = 0)
    /\ [][\A c \in Concatenated : heap[c].current = NoneV => heap'[c] = heap[c]]_vars

\* The Lazy objects made by Lazy.of(lambda: None).
NoneLazies == {l \in Constructed : kind[l] = "none_thunk"}

\* C35: in one thread, a Lazy whose computation returns None has invoked it
\* at most once; once a get() has returned, the value returned is None,
\* is_computed() is true (and answers so to the client), and a later get()
\* does not invoke the computation again.
C35_NoneIsMemoized ==
    \A l \in NoneLazies :
        /\ calls[l] <= 1
        /\ returned[l] \subseteq {NoneV}
        /\ returned[l] # {} => IsComputed(l) /\ calls[l] = 1 /\ value[l] = NoneV
        /\ (result.l = l /\ result.kind = "get") => result.val = NoneV
        /\ (result.l = l /\ result.kind = "is_computed" /\ op[1] = Idle)
               => result.val = BoolV(returned[l] # {})

\* C35 witness: a second get() of such a Lazy is on the way that returns the
\* cached None without the lock, the computation invoked once.
C35_Witness ==
    \E l \in NoneLazies :
        /\ InFrame(1, "fast") /\ Top(1).l = l
        /\ returned[l] = {NoneV} /\ calls[l] = 1 /\ value[l] = NoneV

\* Thread t has a call of get() on l in progress, and the positions of a
\* get() that has not passed the lock.
OnStack(t, l) == \E i \in DOMAIN stack[t] : stack[t][i].l = l
BeforeLock == {"get", "cv_read", "cv_lock"}

\* C36: for a Lazy whose computation gets the same Lazy, directly or through
\* a Lazy mapped from it, no get() ever returns and the Lazy never becomes
\* computed; a get() made by a thread from inside the computation does not
\* pass the lock; and once the lock has been taken it stays with the thread
\* that took it, and every thread that is in a get() on the Lazy stays in it.
C36_SelfGetBlocksForever ==
    /\ [](\A l \in SelfRef :
            /\ returned[l] = {} /\ ~IsComputed(l) /\ calls[l] <= 1
            /\ result.kind = "get" => result.l # l
            /\ \A t \in Threads : \A i, j \in DOMAIN stack[t] :
                   (i < j /\ stack[t][i].l = l /\ stack[t][j].l = l)
                       => stack[t][i].pc \in BeforeLock)
    /\ [][\A l \in SelfRef :
            /\ lock[l] # 0 => lock'[l] = lock[l]
            /\ \A t \in Threads : OnStack(t, l) => OnStack(t, l)']_vars

\* C36 witness: a thread waits for the lock of the Lazy in a get() made from
\* inside the computation, the lock held by that same thread, while another
\* thread waits for the same lock.
C36_Witness ==
    \E l \in SelfRef : \E t, u \in Threads :
        /\ t # u
        /\ lock[l] = t /\ InFrame(t, "cv_lock") /\ Top(t).l = l /\ Len(stack[t]) > 1
        /\ InFrame(u, "cv_lock") /\ Top(u).l = l

\* C37: every advance of Iterator.produce(seed, f) applies f once, to the
\* stored value: the seed at first, f of the value before when that advance
\* returned, the same value again when it raised. The advance returns the
\* value f was applied to when f returns, and raises what f raises
\* otherwise, the stored value left as it was.
C37_ProduceStepsAhead ==
    \A c \in Cursors :
        (built[c].fn = "produce" /\ Unshared(c)) =>
            LET f == heap[c].func
                fed == heap[c].fed
                n == Len(hist[c])
                After(k) == IF Raised(hist[c][k]) # << >> THEN fed[k] ELSE Apply(f, fed[k])
            IN /\ heap[c].invoked = n /\ Len(fed) = n
               /\ \A k \in 1..n :
                      /\ fed[k] = IF k = 1 THEN built[c].v ELSE After(k - 1)
                      /\ hist[c][k] = IF Raised(Apply(f, fed[k])) = << >> THEN fed[k]
                                      ELSE Apply(f, fed[k])
               /\ heap[c].next = IF n = 0 THEN built[c].v ELSE After(n)

\* C37 witness: produce(0, f) with an f that raises from 1 on has returned
\* 0 and then raised twice, f applied to 1 both times and 1 still stored.
C37_Witness ==
    \E c \in Cursors :
        /\ built[c].fn = "produce" /\ built[c].v = IntV(0) /\ heap[c].func = SuccBelow(1)
        /\ hist[c] = <<IntV(0), ExcV(1), ExcV(1)>>
        /\ heap[c].fed = <<IntV(0), IntV(1), IntV(1)>> /\ heap[c].next = IntV(1)

\* The smaller of two numbers.
Min(a, b) == IF a <= b THEN a ELSE b

\* C38: for Iterator.repeatedly(v, n) with n >= 0 the countdown is between 0
\* and n, the calls of the supplier and the countdown add up to n, and the
\* supplier has been called once for each of the first n advances, whether
\* it returned or raised, and never more than n times.
C38_CountdownAccounts ==
    \A c \in Cursors :
        (built[c].fn = "repeatedly" /\ built[c].n >= 0 /\ Unshared(c)) =>
            /\ 0 <= heap[c].countdown /\ heap[c].countdown <= built[c].n
            /\ heap[c].invoked + heap[c].countdown = built[c].n
            /\ heap[c].invoked = Min(Len(hist[c]), built[c].n)
            /\ \A k \in DOMAIN hist[c] :
                   k > built[c].n => hist[c][k] = StopIteration

\* C38 witness: a thunk that raises, repeated MaxCount times, has raised
\* MaxCount times; the countdown is 0 and the next advance has ended with
\* StopIteration without a call of the thunk.
C38_Witness ==
    \E c \in Cursors :
        /\ built[c].fn = "repeatedly" /\ built[c].n = MaxCount
        /\ built[c].v = Raises(ExcV(1))
        /\ Len(hist[c]) = MaxCount + 1
        /\ \A k \in 1..MaxCount : hist[c][k] = ExcV(1)
        /\ hist[c][MaxCount + 1] = StopIteration
        /\ heap[c].countdown = 0 /\ heap[c].invoked = MaxCount

====
